---- MODULE Spec2Model ----
(***************************************************************************)
(* Model of scout (github.com/DeleMike/scout): the directory scanner, the  *)
(* extraction loop of Run, the categorizer, the domain classifier and the  *)
(* insight synthesizer.                                                    *)
(*                                                                         *)
(* A Go string is a sequence of one-character strings, so that ToLower,    *)
(* Contains, HasPrefix and filepath.Ext are computed character by          *)
(* character.  A float64 ratio of two small counts is an exact fraction    *)
(* <<numerator, denominator>> in lowest terms.                             *)
(***************************************************************************)
EXTENDS Integers, Sequences, FiniteSets, TLC

VARIABLES
    pc,         \* position of the invocation
    pool,       \* index of the family the input file names are drawn from
    summary,    \* the DirectorySummary built by Run
    insight,    \* the ContentInsight returned by AnalyzeDirectory
    prev,       \* the summary, insight and year of the earlier invocation
    currentYear,\* time.Now().Year() of the invocation
    root,       \* the root entry handed to ScanDirectory
    todo,       \* entries filepath.WalkDir has still to visit, in visiting order
    scan,       \* the ScanResult under construction
    scanErr,    \* the error returned by ScanDirectory ("pending" while running)
    idx,        \* position of the loop of Run in the scanned file list
    runResult,  \* what Run returned: "pending", "error", "panic" or "summary"
    important,  \* the limit and the result of a call of findImportantDocs
    dispatch,   \* the argument and the result of a call of DetectCategory
    payload,    \* the context data GeneratePrompt puts in the prompt
    unreadable, \* positions in summary.Files of the files that could not be opened or parsed
    cwd,        \* working directory of the shell process
    reports,    \* the report files on disk, each with the lines written to it
    last,       \* the last line entered at the prompt and what the shell did with it
    entered     \* number of lines entered at the prompt

vars == <<pc, pool, summary, insight, prev, currentYear, root, todo, scan, scanErr, idx, runResult,
         important, dispatch, payload, unreadable, cwd, reports, last, entered>>

None == "none"

-----------------------------------------------------------------------------
(* Bounds                                                                  *)

MaxFiles == 10
MaxPureFiles == 3
MaxCategoryFiles == 2
MaxLarge == 2
MaxLimit == 3
MaxPriorityFiles == 7

-----------------------------------------------------------------------------
(* strings, path/filepath                                                  *)

UpperCase == <<"A","B","C","D","E","F","G","H","I","J","K","L","M",
               "N","O","P","Q","R","S","T","U","V","W","X","Y","Z">>
LowerCase == <<"a","b","c","d","e","f","g","h","i","j","k","l","m",
               "n","o","p","q","r","s","t","u","v","w","x","y","z">>

\* unicode.ToLower on the letters A..Z; every other character is unchanged
lowerOf == [c \in {UpperCase[i] : i \in 1..26} |->
               LowerCase[CHOOSE i \in 1..26 : UpperCase[i] = c]]

ToLowerChar(c) == IF c \in DOMAIN lowerOf THEN lowerOf[c] ELSE c

ToLower(s) == [i \in 1..Len(s) |-> ToLowerChar(s[i])]

Contains(s, substr) ==
    \E i \in 0..(Len(s) - Len(substr)) : SubSeq(s, i + 1, i + Len(substr)) = substr

HasPrefix(s, prefix) ==
    Len(s) >= Len(prefix) /\ SubSeq(s, 1, Len(prefix)) = prefix

\* filepath.Ext: the suffix beginning at the final dot, empty if there is no dot
Ext(name) ==
    LET dots == {i \in 1..Len(name) : name[i] = "."}
    IN  IF dots = {} THEN <<>>
        ELSE SubSeq(name, CHOOSE k \in dots : \A j \in dots : j <= k, Len(name))

AnyOf(seq, P(_)) == \E i \in 1..Len(seq) : P(seq[i])

-----------------------------------------------------------------------------
(* helpers                                                                 *)

codeExts == <<<<".", "g", "o">>, <<".", "d", "a", "r", "t">>, <<".", "j", "s">>, <<".", "t", "s">>, <<".", "p", "y">>, <<".", "j", "a", "v", "a">>, <<".", "r", "b">>,
              <<".", "r", "s">>, <<".", "c">>, <<".", "c", "p", "p">>, <<".", "c", "s">>, <<".", "p", "h", "p">>, <<".", "s", "w", "i", "f", "t">>, <<".", "k", "t">>>>

IsCodeFile(ext) == \E i \in 1..Len(codeExts) : codeExts[i] = ext

\* variant: the module file of a Go project counts as configuration
IsConfigFileWithGoMod(ext, name) ==
    \/ ext = <<".", "j", "s", "o", "n">> \/ ext = <<".", "y", "a", "m", "l">> \/ ext = <<".", "y", "m", "l">> \/ ext = <<".", "t", "o", "m", "l">>
    \/ ext = <<".", "x", "m", "l">> \/ ext = <<".", "i", "n", "i">> \/ name = <<".", "e", "n", "v">> \/ name = <<".", "g", "i", "t", "i", "g", "n", "o", "r", "e">>
    \/ name = <<"g", "o", ".", "m", "o", "d">>

IsConfigFile(ext, name) ==
    \/ ext = <<".", "j", "s", "o", "n">> \/ ext = <<".", "y", "a", "m", "l">> \/ ext = <<".", "y", "m", "l">> \/ ext = <<".", "t", "o", "m", "l">>
    \/ ext = <<".", "x", "m", "l">> \/ ext = <<".", "i", "n", "i">> \/ name = <<".", "e", "n", "v">> \/ name = <<".", "g", "i", "t", "i", "g", "n", "o", "r", "e">>

IsImageFile(ext) ==
    \/ ext = <<".", "j", "p", "g">> \/ ext = <<".", "j", "p", "e", "g">> \/ ext = <<".", "p", "n", "g">> \/ ext = <<".", "g", "i", "f">>
    \/ ext = <<".", "b", "m", "p">> \/ ext = <<".", "s", "v", "g">> \/ ext = <<".", "w", "e", "b", "p">> \/ ext = <<".", "h", "e", "i", "c">>

IsVideoFile(ext) ==
    \/ ext = <<".", "m", "p", "4">> \/ ext = <<".", "a", "v", "i">> \/ ext = <<".", "m", "o", "v">> \/ ext = <<".", "m", "k", "v">>
    \/ ext = <<".", "w", "e", "b", "m">> \/ ext = <<".", "f", "l", "v">> \/ ext = <<".", "w", "m", "v">>

IsAudioFile(ext) ==
    \/ ext = <<".", "m", "p", "3">> \/ ext = <<".", "w", "a", "v">> \/ ext = <<".", "f", "l", "a", "c">> \/ ext = <<".", "a", "a", "c">>
    \/ ext = <<".", "o", "g", "g">> \/ ext = <<".", "m", "4", "a">> \/ ext = <<".", "w", "m", "a">>

markers == <<<<"p", "a", "c", "k", "a", "g", "e", ".", "j", "s", "o", "n">>, <<"p", "u", "b", "s", "p", "e", "c", ".", "y", "a", "m", "l">>, <<"g", "o", ".", "m", "o", "d">>, <<"C", "a", "r", "g", "o", ".", "t", "o", "m", "l">>,
             <<"r", "e", "q", "u", "i", "r", "e", "m", "e", "n", "t", "s", ".", "t", "x", "t">>, <<"p", "o", "m", ".", "x", "m", "l">>, <<"b", "u", "i", "l", "d", ".", "g", "r", "a", "d", "l", "e">>, <<"G", "e", "m", "f", "i", "l", "e">>,
             <<"c", "o", "m", "p", "o", "s", "e", "r", ".", "j", "s", "o", "n">>>>

\* strings.ToLower(marker) of every marker
lowerMarkers == {ToLower(markers[i]) : i \in 1..Len(markers)}

\* variant: the name is compared with the markers as they are spelled
IsProjectMarkerFileExact(name) == \E i \in 1..Len(markers) : ToLower(name) = markers[i]

IsProjectMarkerFile(name) == ToLower(name) \in lowerMarkers

-----------------------------------------------------------------------------
(* Go maps with int values: a missing key reads as 0                       *)

EmptyMap == <<>>

Get(m, k) == IF k \in DOMAIN m THEN m[k] ELSE 0

Incr(m, k) == IF k \in DOMAIN m THEN [m EXCEPT ![k] = @ + 1] ELSE m @@ (k :> 1)

RECURSIVE SumOver(_, _)
SumOver(m, keys) ==
    IF keys = {} THEN 0
    ELSE LET k == CHOOSE x \in keys : TRUE
         IN  m[k] + SumOver(m, keys \ {k})

\* variant: the comparison of the running maximum is reversed
RECURSIVE MaxOverReversed(_, _, _)
MaxOverReversed(m, keys, dominant) ==
    IF keys = {} THEN dominant
    ELSE LET k == CHOOSE x \in keys : TRUE
         IN  MaxOverReversed(m, keys \ {k}, IF m[k] < dominant THEN m[k] ELSE dominant)

RECURSIVE MaxOver(_, _, _)
MaxOver(m, keys, dominant) ==
    IF keys = {} THEN dominant
    ELSE LET k == CHOOSE x \in keys : TRUE
         IN  MaxOver(m, keys \ {k}, IF m[k] > dominant THEN m[k] ELSE dominant)

-----------------------------------------------------------------------------
(* float64 quotients of counts                                             *)

RECURSIVE GCD(_, _)
GCD(a, b) == IF b = 0 THEN a ELSE GCD(b, a % b)

\* float64(n) / float64(d), d > 0
Quot(n, d) == LET g == GCD(n, d) IN <<n \div g, d \div g>>

\* variant: the comparison is not strict
GreaterOrEqual(q, num, den) == q[1] * den >= num * q[2]

\* q > num/den, the comparison of a quotient with a decimal literal.  The literals
\* 0.3, 0.5, 0.7 and 0.4 are the doubles nearest to the decimals, and the quotient of
\* two counts is rounded to the nearest double, so for the counts of a directory the
\* quotient exceeds the literal exactly when the fraction exceeds the decimal.
Greater(q, num, den) == q[1] * den > num * q[2]

-----------------------------------------------------------------------------
(* internal/scout/analysis.go                                              *)

DomainSoftwareProject == "software"
DomainDocuments == "documents"
DomainMedia == "media"
DomainStudyMaterials == "study"
DomainFinancial == "financial"
DomainCreative == "creative"
DomainMixed == "mixed"
DomainEmpty == "empty"

\* variant: .csv is not a spreadsheet extension
categoryOfCsvAsOther(file) ==
    LET ext == ToLower(file.Extension)
        name == ToLower(file.Name)
    IN  CASE IsCodeFile(ext) -> "code"
          [] IsConfigFile(ext, name) -> "config"
          [] ext = <<".", "p", "d", "f">> -> "pdf"
          [] ext = <<".", "d", "o", "c", "x">> \/ ext = <<".", "d", "o", "c">> -> "word"
          [] ext = <<".", "x", "l", "s", "x">> \/ ext = <<".", "x", "l", "s">> -> "spreadsheet"
          [] ext = <<".", "p", "p", "t", "x">> \/ ext = <<".", "p", "p", "t">> -> "presentation"
          [] ext = <<".", "t", "x", "t">> \/ ext = <<".", "m", "d">> -> "text"
          [] IsImageFile(ext) -> "image"
          [] IsVideoFile(ext) -> "video"
          [] IsAudioFile(ext) -> "audio"
          [] \/ ext = <<".", "z", "i", "p">> \/ ext = <<".", "r", "a", "r">> \/ ext = <<".", "7", "z">>
             \/ ext = <<".", "t", "a", "r">> \/ ext = <<".", "g", "z">> -> "archive"
          [] OTHER -> "other"

categoryOf(file) ==
    LET ext == ToLower(file.Extension)
        name == ToLower(file.Name)
    IN  CASE IsCodeFile(ext) -> "code"
          [] IsConfigFile(ext, name) -> "config"
          [] ext = <<".", "p", "d", "f">> -> "pdf"
          [] ext = <<".", "d", "o", "c", "x">> \/ ext = <<".", "d", "o", "c">> -> "word"
          [] ext = <<".", "x", "l", "s", "x">> \/ ext = <<".", "x", "l", "s">> \/ ext = <<".", "c", "s", "v">> -> "spreadsheet"
          [] ext = <<".", "p", "p", "t", "x">> \/ ext = <<".", "p", "p", "t">> -> "presentation"
          [] ext = <<".", "t", "x", "t">> \/ ext = <<".", "m", "d">> -> "text"
          [] IsImageFile(ext) -> "image"
          [] IsVideoFile(ext) -> "video"
          [] IsAudioFile(ext) -> "audio"
          [] \/ ext = <<".", "z", "i", "p">> \/ ext = <<".", "r", "a", "r">> \/ ext = <<".", "7", "z">>
             \/ ext = <<".", "t", "a", "r">> \/ ext = <<".", "g", "z">> -> "archive"
          [] OTHER -> "other"

RECURSIVE categorizeFrom(_, _, _)
categorizeFrom(fs, i, categories) ==
    IF i > Len(fs) THEN categories
    ELSE categorizeFrom(fs, i + 1, Incr(categories, categoryOf(fs[i])))

\* variant: the loop starts at the second file
categorizeFilesFromSecond(fs) == categorizeFrom(fs, 2, EmptyMap)

categorizeFiles(fs) == categorizeFrom(fs, 1, EmptyMap)

studyKeywords == <<<<"e", "x", "a", "m">>, <<"t", "e", "s", "t">>, <<"q", "u", "i", "z">>, <<"s", "t", "u", "d", "y">>, <<"l", "e", "c", "t", "u", "r", "e">>, <<"n", "o", "t", "e", "s">>,
                   <<"c", "h", "a", "p", "t", "e", "r">>, <<"a", "s", "s", "i", "g", "n", "m", "e", "n", "t">>, <<"h", "o", "m", "e", "w", "o", "r", "k">>, <<"c", "o", "u", "r", "s", "e">>,
                   <<"s", "y", "l", "l", "a", "b", "u", "s">>, <<"p", "r", "a", "c", "t", "i", "c", "e">>, <<"r", "e", "v", "i", "e", "w">>>>

financialKeywords == <<<<"t", "a", "x">>, <<"i", "n", "v", "o", "i", "c", "e">>, <<"r", "e", "c", "e", "i", "p", "t">>, <<"s", "t", "a", "t", "e", "m", "e", "n", "t">>, <<"b", "a", "n", "k">>,
                       <<"p", "a", "y", "r", "o", "l", "l">>, <<"e", "x", "p", "e", "n", "s", "e">>, <<"b", "u", "d", "g", "e", "t">>, <<"f", "i", "n", "a", "n", "c", "i", "a", "l">>,
                       <<"a", "c", "c", "o", "u", "n", "t", "i", "n", "g">>>>

creativeKeywords == <<<<"d", "e", "s", "i", "g", "n">>, <<"m", "o", "c", "k", "u", "p">>, <<"d", "r", "a", "f", "t">>, <<"s", "k", "e", "t", "c", "h">>, <<"a", "r", "t", "w", "o", "r", "k">>,
                      <<"r", "e", "n", "d", "e", "r">>, <<"i", "l", "l", "u", "s", "t", "r", "a", "t", "i", "o", "n">>, <<"l", "o", "g", "o">>, <<"b", "a", "n", "n", "e", "r">>, <<"p", "o", "s", "t", "e", "r">>>>

\* variant: one increment per matching keyword, no break after the first
RECURSIVE matchCountPerKeyword(_, _, _)
matchCountPerKeyword(fs, i, keywords) ==
    IF i > Len(fs) THEN 0
    ELSE LET lowerName == ToLower(fs[i].Name)
         IN  Cardinality({k \in 1..Len(keywords) : Contains(lowerName, keywords[k])})
             + matchCountPerKeyword(fs, i + 1, keywords)

\* the inner keyword loop: one increment per file, at its first matching keyword
RECURSIVE matchCount(_, _, _)
matchCount(fs, i, keywords) ==
    IF i > Len(fs) THEN 0
    ELSE LET lowerName == ToLower(fs[i].Name)
             hit == \E k \in 1..Len(keywords) : Contains(lowerName, keywords[k])
         IN  (IF hit THEN 1 ELSE 0) + matchCount(fs, i + 1, keywords)

\* variant: files above 1 MB are not looked at
hasStudyKeywordsSmallFiles(fs) ==
    LET small(f) == f.Size <= 1000000
    IN  matchCount(SelectSeq(fs, small), 1, studyKeywords) >= 3

hasStudyKeywords(fs) == matchCount(fs, 1, studyKeywords) >= 3

hasFinancialKeywords(fs) == matchCount(fs, 1, financialKeywords) >= 2

\* variant: one matching file is enough
hasCreativeKeywordsOnce(fs) == matchCount(fs, 1, creativeKeywords) >= 1

hasCreativeKeywords(fs) == matchCount(fs, 1, creativeKeywords) >= 2

detectDomain(categories, fs) ==
    LET total == SumOver(categories, DOMAIN categories)
    IN  IF total = 0 THEN DomainEmpty
        ELSE
        LET codePercent == Quot(Get(categories, "code") + Get(categories, "config"), total)
            docPercent == Quot(Get(categories, "pdf") + Get(categories, "word")
                               + Get(categories, "text"), total)
            mediaPercent == Quot(Get(categories, "image") + Get(categories, "video")
                                 + Get(categories, "audio"), total)
            spreadsheetPercent == Quot(Get(categories, "spreadsheet"), total)
            hasProjectMarkers == \E i \in 1..Len(fs) : IsProjectMarkerFile(fs[i].Name)
        IN  IF hasProjectMarkers \/ Greater(codePercent, 3, 10)
                THEN DomainSoftwareProject
            ELSE IF Greater(docPercent, 5, 10)
                THEN IF hasStudyKeywords(fs) THEN DomainStudyMaterials
                     ELSE IF hasFinancialKeywords(fs) THEN DomainFinancial
                     ELSE DomainDocuments
            ELSE IF Greater(mediaPercent, 7, 10)
                THEN IF /\ Get(categories, "image")
                              > Get(categories, "video") + Get(categories, "audio")
                        /\ hasCreativeKeywords(fs)
                     THEN DomainCreative
                     ELSE DomainMedia
            ELSE IF Greater(spreadsheetPercent, 4, 10)
                THEN DomainFinancial
            ELSE DomainMixed

\* variant: no guard for an empty histogram; 0/0 is NaN, written <<0, 0>>
calculateConfidenceUnguarded(categories) ==
    LET total == SumOver(categories, DOMAIN categories)
        dominant == MaxOver(categories, DOMAIN categories, 0)
    IN  IF total = 0 THEN <<0, 0>> ELSE Quot(dominant, total)

calculateConfidence(categories) ==
    LET total == SumOver(categories, DOMAIN categories)
        dominant == MaxOver(categories, DOMAIN categories, 0)
    IN  IF total = 0 THEN <<0, 1>> ELSE Quot(dominant, total)

-----------------------------------------------------------------------------
(* sort.Slice with a descending comparison on .key.  sort.Slice runs the   *)
(* pattern-defeating quicksort of package sort: a slice of at most         *)
(* maxInsertion elements is sorted by insertion; a longer one is first     *)
(* split around a pivot.  The lists of the model have at most              *)
(* maxInsertion + 1 elements, so that both sides of the first pivot are    *)
(* sorted by insertion.                                                    *)

maxInsertion == 12

RECURSIVE insertLeft(_, _)
insertLeft(s, j) ==
    IF j > 1 /\ s[j].key > s[j - 1].key
    THEN insertLeft([s EXCEPT ![j] = s[j - 1], ![j - 1] = s[j]], j - 1)
    ELSE s

RECURSIVE insertionSort(_, _)
insertionSort(s, i) ==
    IF i > Len(s) THEN s ELSE insertionSort(insertLeft(s, i), i + 1)

\* less(i, j) of the callers: the element at i goes before the element at j
Less(s, i, j) == s[i].key > s[j].key

Swap(s, i, j) == [s EXCEPT ![i] = s[j], ![j] = s[i]]

\* order2_func on a pair of positions with the number of swaps so far
order2(s, p) == IF Less(s, p[2], p[1]) THEN <<p[2], p[1], p[3] + 1>> ELSE p

\* median_func: the position of the median of three, and the swaps counted
median(s, a, b, c) ==
    LET ab == order2(s, <<a, b, 0>>)
        bc == order2(s, <<ab[2], c, ab[3]>>)
        ab2 == order2(s, <<ab[1], bc[1], bc[3]>>)
    IN  [pivot |-> ab2[2], swaps |-> ab2[3]]

\* choosePivot_func on a whole slice of 8 to 49 elements
choosePivot(s) ==
    LET q == Len(s) \div 4
        m == median(s, 1 + q, 1 + 2 * q, 1 + 3 * q)
    IN  [pivot |-> m.pivot, increasing |-> m.swaps = 0]

\* partialInsertionSort_func on a slice of less than 50 elements: it succeeds
\* only if the slice is sorted already
partialInsertionSort(s) == \A i \in 2..Len(s) : ~Less(s, i, i - 1)

\* the two scans of partition_func, against the pivot at position 1
RECURSIVE scanUp(_, _, _)
scanUp(s, i, j) == IF i <= j /\ Less(s, i, 1) THEN scanUp(s, i + 1, j) ELSE i

RECURSIVE scanDown(_, _, _)
scanDown(s, i, j) == IF i <= j /\ ~Less(s, j, 1) THEN scanDown(s, i, j - 1) ELSE j

RECURSIVE partitionLoop(_, _, _)
partitionLoop(s, i, j) ==
    LET i2 == scanUp(s, i, j)
        j2 == scanDown(s, i2, j)
    IN  IF i2 > j2 THEN [s |-> s, j |-> j2]
        ELSE partitionLoop(Swap(s, i2, j2), i2 + 1, j2 - 1)

\* partition_func on a whole slice: the slice split around the pivot, and the
\* final position of the pivot
partition(s, pivot) ==
    LET r == partitionLoop(Swap(s, 1, pivot), 2, Len(s))
    IN  [s |-> Swap(r.s, r.j, 1), mid |-> r.j]

\* pdqsort_func on a slice of maxInsertion + 1 elements
pdqsort(s) ==
    LET p == choosePivot(s)
    IN  IF p.increasing /\ partialInsertionSort(s) THEN s
        ELSE LET r == partition(s, p.pivot)
             IN  insertionSort(SubSeq(r.s, 1, r.mid - 1), 2)
                 \o <<r.s[r.mid]>>
                 \o insertionSort(SubSeq(r.s, r.mid + 1, Len(s)), 2)

sortSlice(s) == IF Len(s) <= maxInsertion THEN insertionSort(s, 2) ELSE pdqsort(s)

Names(s) == [i \in 1..Len(s) |-> s[i].name]

Min(a, b) == IF a < b THEN a ELSE b

-----------------------------------------------------------------------------
(* helpers: years and topics of a file name                                *)

Digits == <<"0","1","2","3","4","5","6","7","8","9">>

IsDigit(c) == \E i \in 1..10 : Digits[i] = c

IsLetter(c) == \E i \in 1..26 : UpperCase[i] = c \/ LowerCase[i] = c

\* a word character of the regexp class \w
IsWordChar(c) == IsDigit(c) \/ IsLetter(c) \/ c = "_"

RECURSIVE Itoa(_)
Itoa(n) == IF n < 10 THEN <<Digits[n + 1]>> ELSE Itoa(n \div 10) \o <<Digits[(n % 10) + 1]>>

\* regexp \b(19|20)\d{2}\b, leftmost match; the empty string if there is none
ExtractYear(filename) ==
    LET n == Len(filename)
        starts == {i \in 1..(n - 3) :
                      /\ SubSeq(filename, i, i + 1) \in {<<"1", "9">>, <<"2", "0">>}
                      /\ IsDigit(filename[i + 2]) /\ IsDigit(filename[i + 3])
                      /\ (i = 1 \/ ~IsWordChar(filename[i - 1]))
                      /\ (i + 3 = n \/ ~IsWordChar(filename[i + 4]))}
    IN  IF starts = {} THEN <<>>
        ELSE LET i == CHOOSE k \in starts : \A j \in starts : k <= j
             IN  SubSeq(filename, i, i + 3)

\* regexp [_\-.] replaced by a space
replaceSeparators(s) ==
    [i \in 1..Len(s) |-> IF s[i] \in {"_", "-", "."} THEN " " ELSE s[i]]

\* position i lies in a maximal digit run matched by \b\d+\b
inNumber(s, i) ==
    /\ IsDigit(s[i])
    /\ \E a \in 1..i : \E b \in i..Len(s) :
          /\ \A k \in a..b : IsDigit(s[k])
          /\ (a = 1 \/ ~IsWordChar(s[a - 1]))
          /\ (b = Len(s) \/ ~IsWordChar(s[b + 1]))

\* the numbers are deleted; the text between them is kept
RECURSIVE removeNumbers(_, _)
removeNumbers(s, i) ==
    IF i > Len(s) THEN <<>>
    ELSE (IF inNumber(s, i) THEN <<>> ELSE <<s[i]>>) \o removeNumbers(s, i + 1)

\* strings.Fields: the maximal runs of non-space characters, as a set of words
Fields(s) ==
    {SubSeq(s, a, b) : <<a, b>> \in
        {p \in (1..Len(s)) \X (1..Len(s)) :
            /\ p[1] <= p[2]
            /\ \A k \in p[1]..p[2] : s[k] # " "
            /\ (p[1] = 1 \/ s[p[1] - 1] = " ")
            /\ (p[2] = Len(s) \/ s[p[2] + 1] = " ")}}

stopWords == {<<"t", "h", "e">>, <<"a", "n", "d">>, <<"o", "r">>, <<"o", "f">>, <<"a">>, <<"a", "n">>, <<"i", "n">>, <<"o", "n">>, <<"a", "t">>,
              <<"t", "o">>, <<"f", "o", "r">>, <<"w", "i", "t", "h">>}

\* the topic words of a file name (the caller only counts them in a map)
ExtractTopicsFromFilename(filename) ==
    LET ext == Ext(filename)
        trimmed == SubSeq(filename, 1, Len(filename) - Len(ext))
        name == removeNumbers(replaceSeparators(ToLower(trimmed)), 1)
    IN  {w \in Fields(name) : Len(w) > 3 /\ w \notin stopWords}

priorities == <<<<"s", "u", "m", "m", "a", "r", "y">>, <<"o", "v", "e", "r", "v", "i", "e", "w">>, <<"f", "i", "n", "a", "l">>, <<"i", "m", "p", "o", "r", "t", "a", "n", "t">>, <<"g", "u", "i", "d", "e">>,
                <<"i", "n", "d", "e", "x">>, <<"t", "a", "b", "l", "e">>, <<"c", "o", "n", "t", "e", "n", "t", "s">>, <<"r", "e", "a", "d", "m", "e">>, <<"s", "t", "a", "r", "t">>, <<"i", "n", "t", "r", "o">>,
                <<"i", "n", "t", "r", "o", "d", "u", "c", "t", "i", "o", "n">>>>

ShouldPrioritizeDoc(filename, year) ==
    LET lowerName == ToLower(filename)
        all == priorities \o <<Itoa(year - 2), Itoa(year - 1), Itoa(year)>>
    IN  \E i \in 1..Len(all) : Contains(lowerName, all[i])

-----------------------------------------------------------------------------
(* internal/scout/analysis.go: the insight synthesizers                    *)

RECURSIVE scoreDocs(_, _, _)
scoreDocs(fs, i, year) ==
    IF i > Len(fs) THEN <<>>
    ELSE
    LET file == fs[i]
        ext == ToLower(file.Extension)
        name == ToLower(file.Name)
        score == (IF Contains(name, <<"s", "u", "m", "m", "a", "r", "y">>) \/ Contains(name, <<"o", "v", "e", "r", "v", "i", "e", "w">>)
                  THEN 50 ELSE 0)
               + (IF Contains(name, <<"f", "i", "n", "a", "l">>) \/ Contains(name, <<"i", "m", "p", "o", "r", "t", "a", "n", "t">>)
                  THEN 40 ELSE 0)
               + (IF Contains(name, <<"g", "u", "i", "d", "e">>) \/ Contains(name, <<"h", "a", "n", "d", "b", "o", "o", "k">>)
                  THEN 30 ELSE 0)
               + (IF Contains(name, Itoa(year)) THEN 30
                  ELSE IF Contains(name, Itoa(year - 1)) THEN 20
                  ELSE IF Contains(name, Itoa(year - 2)) THEN 10
                  ELSE 0)
               + (IF file.Size > 1000000 THEN 10 ELSE 0)
    IN  (IF ext # <<".", "p", "d", "f">> /\ ext # <<".", "d", "o", "c", "x">> /\ ext # <<".", "d", "o", "c">>
         THEN <<>>
         ELSE <<[name |-> file.Name, key |-> score]>>) \o scoreDocs(fs, i + 1, year)

RECURSIVE largeFilesBySize(_, _)
largeFilesBySize(fs, i) ==
    IF i > Len(fs) THEN <<>>
    ELSE (IF fs[i].Size > 500000 THEN <<[name |-> fs[i].Name, key |-> fs[i].Size]>> ELSE <<>>)
         \o largeFilesBySize(fs, i + 1)

RECURSIVE largeFiles(_, _)
largeFiles(fs, i) ==
    IF i > Len(fs) THEN <<>>
    ELSE (IF fs[i].Size > 500000 THEN <<[name |-> fs[i].Name, key |-> 0]>> ELSE <<>>)
         \o largeFiles(fs, i + 1)

findImportantDocs(fs, limit, year) ==
    LET docs == scoreDocs(fs, 1, year)
        scored == IF Len(docs) = 0 /\ Len(fs) > 0 THEN largeFiles(fs, 1) ELSE docs
        sorted == sortSlice(scored)
    IN  Names(SubSeq(sorted, 1, Min(Len(sorted), IF limit < 0 THEN 0 ELSE limit)))

isDocument(file) == file.Extension = <<".", "p", "d", "f">> \/ file.Extension = <<".", "d", "o", "c", "x">>

RECURSIVE priorityDocs(_, _, _)
priorityDocs(fs, i, year) ==
    IF i > Len(fs) THEN <<>>
    ELSE (IF isDocument(fs[i]) /\ ShouldPrioritizeDoc(fs[i].Name, year)
          THEN <<fs[i].Name>> ELSE <<>>) \o priorityDocs(fs, i + 1, year)

DigitVal(c) == (CHOOSE i \in 1..10 : Digits[i] = c) - 1

YearVal(y) == 1000 * DigitVal(y[1]) + 100 * DigitVal(y[2]) + 10 * DigitVal(y[3]) + DigitVal(y[4])

\* the smallest and the largest year string found, joined unless they are equal
dateRange(years) ==
    IF years = {} THEN <<>>
    ELSE LET minYear == CHOOSE y \in years : \A z \in years : YearVal(y) <= YearVal(z)
             maxYear == CHOOSE y \in years : \A z \in years : YearVal(y) >= YearVal(z)
         IN  IF minYear = maxYear THEN minYear ELSE minYear \o <<"-">> \o maxYear

extractDocumentInsightsTooFew(ins, fs, year) ==
    LET docs == {i \in 1..Len(fs) : isDocument(fs[i])}
        years == {ExtractYear(fs[i].Name) : i \in docs} \ {<<>>}
        topics == UNION {ExtractTopicsFromFilename(fs[i].Name) : i \in docs}
        keyFiles == ins.KeyFiles \o priorityDocs(fs, 1, year)
    IN  [ins EXCEPT
            !.Topics = topics,
            !.DateRange = dateRange(years),
            !.KeyFiles = IF Len(keyFiles) < 3 THEN findImportantDocs(fs, 3, year)
                         ELSE IF Len(keyFiles) > 5 THEN SubSeq(keyFiles, 1, 5)
                         ELSE keyFiles,
            !.Recommendations = <<"Start with the most recent documents",
                                  "Look for summary or overview files first",
                                  "Organize by topic or date if needed">>]

extractDocumentInsights(ins, fs, year) ==
    LET docs == {i \in 1..Len(fs) : isDocument(fs[i])}
        years == {ExtractYear(fs[i].Name) : i \in docs} \ {<<>>}
        topics == UNION {ExtractTopicsFromFilename(fs[i].Name) : i \in docs}
        keyFiles == ins.KeyFiles \o priorityDocs(fs, 1, year)
    IN  [ins EXCEPT
            !.Topics = topics,
            !.DateRange = dateRange(years),
            !.KeyFiles = IF Len(keyFiles) = 0 THEN findImportantDocs(fs, 3, year)
                         ELSE IF Len(keyFiles) > 5 THEN SubSeq(keyFiles, 1, 5)
                         ELSE keyFiles,
            !.Recommendations = <<"Start with the most recent documents",
                                  "Look for summary or overview files first",
                                  "Organize by topic or date if needed">>]

entryPoints == <<<<"m", "a", "i", "n", ".", "d", "a", "r", "t">>, <<"m", "a", "i", "n", ".", "g", "o">>, <<"i", "n", "d", "e", "x", ".", "j", "s">>, <<"i", "n", "d", "e", "x", ".", "h", "t", "m", "l">>, <<"a", "p", "p", ".", "p", "y">>,
                 <<"m", "a", "i", "n", ".", "p", "y">>>>

detectTechStack(fs) ==
    LET has(P(_, _)) == \E i \in 1..Len(fs) : P(ToLower(fs[i].Name), ToLower(fs[i].Extension))
        isFlutter(name, ext) == name = <<"p", "u", "b", "s", "p", "e", "c", ".", "y", "a", "m", "l">>
        isNode(name, ext) == name = <<"p", "a", "c", "k", "a", "g", "e", ".", "j", "s", "o", "n">>
        isGo(name, ext) == name = <<"g", "o", ".", "m", "o", "d">>
        isPython(name, ext) == name = <<"r", "e", "q", "u", "i", "r", "e", "m", "e", "n", "t", "s", ".", "t", "x", "t">> \/ name = <<"p", "i", "p", "f", "i", "l", "e">>
        isRust(name, ext) == name = <<"c", "a", "r", "g", "o", ".", "t", "o", "m", "l">>
        isJava(name, ext) == name = <<"p", "o", "m", ".", "x", "m", "l">> \/ name = <<"b", "u", "i", "l", "d", ".", "g", "r", "a", "d", "l", "e">>
        isMake(name, ext) == name = <<"c", "m", "a", "k", "e", "l", "i", "s", "t", "s", ".", "t", "x", "t">> \/ name = <<"m", "a", "k", "e", "f", "i", "l", "e">>
        isC(name, ext) == ext = <<".", "c", "p", "p">> \/ ext = <<".", "c">> \/ ext = <<".", "h">> \/ ext = <<".", "h", "p", "p">>
        isCuda(name, ext) == ext = <<".", "c", "u">>
    IN  (IF has(isFlutter) THEN {<<"F", "l", "u", "t", "t", "e", "r">>} ELSE {})
        \cup (IF has(isNode) THEN {<<"N", "o", "d", "e", ".", "j", "s", "/", "J", "a", "v", "a", "S", "c", "r", "i", "p", "t">>} ELSE {})
        \cup (IF has(isGo) THEN {<<"G", "o">>} ELSE {})
        \cup (IF has(isPython) THEN {<<"P", "y", "t", "h", "o", "n">>} ELSE {})
        \cup (IF has(isRust) THEN {<<"R", "u", "s", "t">>} ELSE {})
        \cup (IF has(isJava) THEN {<<"J", "a", "v", "a">>} ELSE {})
        \cup (IF has(isMake) THEN {<<"C", "/", "C", "+", "+", " ", "(", "M", "a", "k", "e", "/", "C", "M", "a", "k", "e", ")">>} ELSE {})
        \cup (IF has(isC) THEN {<<"C", "/", "C", "+", "+">>} ELSE {})
        \cup (IF has(isCuda) THEN {<<"C", "U", "D", "A", " ", "(", "N", "V", "I", "D", "I", "A", ")">>} ELSE {})

RECURSIVE entryPointFiles(_, _)
entryPointFiles(fs, i) ==
    IF i > Len(fs) THEN <<>>
    ELSE (IF \E e \in 1..Len(entryPoints) : ToLower(fs[i].Name) = entryPoints[e]
          THEN <<fs[i].Name>> ELSE <<>>) \o entryPointFiles(fs, i + 1)

srcPlaceholder == <<"L", "o", "o", "k", " ", "i", "n", " ", "t", "h", "e", " ", "s", "r", "c", "/", " ", "o", "r", " ", "l", "i", "b", "/", " ", "d", "i", "r", "e", "c", "t", "o", "r", "y">>

\* the variant that lists the README under its canonical lowercase name
extractSoftwareInsightsCanonicalReadme(ins, fs) ==
    LET found == ins.KeyFiles \o entryPointFiles(fs, 1)
        readmes == {i \in 1..Len(fs) : ToLower(fs[i].Name) = <<"r", "e", "a", "d", "m", "e", ".", "m", "d">>}
        withReadme == IF readmes = {} THEN found
                      ELSE <<<<"r", "e", "a", "d", "m", "e", ".", "m", "d">>>> \o found
    IN  [ins EXCEPT
            !.Topics = detectTechStack(fs),
            !.KeyFiles = IF Len(withReadme) = 0 THEN <<srcPlaceholder>> ELSE withReadme,
            !.Recommendations = <<"Read README.md first if available",
                                  "Check the main entry point to understand flow",
                                  "Review package/dependency files for tech stack">>]

extractSoftwareInsights(ins, fs) ==
    LET found == ins.KeyFiles \o entryPointFiles(fs, 1)
        readmes == {i \in 1..Len(fs) : ToLower(fs[i].Name) = <<"r", "e", "a", "d", "m", "e", ".", "m", "d">>}
        withReadme == IF readmes = {} THEN found
                      ELSE <<fs[CHOOSE i \in readmes : \A j \in readmes : i <= j].Name>>
                           \o found
    IN  [ins EXCEPT
            !.Topics = detectTechStack(fs),
            !.KeyFiles = IF Len(withReadme) = 0 THEN <<srcPlaceholder>> ELSE withReadme,
            !.Recommendations = <<"Read README.md first if available",
                                  "Check the main entry point to understand flow",
                                  "Review package/dependency files for tech stack">>]

\* (the recommendation texts are written without their trailing emoji)
countWhere(fs, P(_)) == Cardinality({i \in 1..Len(fs) : P(ToLower(fs[i].Extension))})

extractMediaInsights(ins, fs) ==
    LET onlyVideo(ext) == ~IsImageFile(ext) /\ IsVideoFile(ext)
        onlyAudio(ext) == ~IsImageFile(ext) /\ ~IsVideoFile(ext) /\ IsAudioFile(ext)
        imageCount == countWhere(fs, IsImageFile)
        videoCount == countWhere(fs, onlyVideo)
        audioCount == countWhere(fs, onlyAudio)
    IN  IF imageCount > videoCount /\ imageCount > audioCount
        THEN [ins EXCEPT !.Topics = {<<"p", "h", "o", "t", "o", "s">>, <<"i", "m", "a", "g", "e", "s">>},
                         !.Recommendations = <<"Browse through and enjoy the memories!">>]
        ELSE IF videoCount > 0
        THEN [ins EXCEPT !.Topics = {<<"v", "i", "d", "e", "o", "s">>},
                         !.Recommendations = <<"Grab some popcorn and enjoy!">>]
        ELSE IF audioCount > 0
        THEN [ins EXCEPT !.Topics = {<<"m", "u", "s", "i", "c">>, <<"a", "u", "d", "i", "o">>},
                         !.Recommendations = <<"Put on your headphones and vibe!">>]
        ELSE ins

extractFinancialInsights(ins, fs) ==
    LET any(words) == \E i \in 1..Len(fs) : \E w \in words : Contains(ToLower(fs[i].Name), w)
    IN  [ins EXCEPT
            !.Topics = ins.Topics
                \cup (IF any({<<"t", "a", "x">>, <<"a", "s", "s", "e", "s", "s", "m", "e", "n", "t">>}) THEN {<<"t", "a", "x", "e", "s">>} ELSE {})
                \cup (IF any({<<"i", "n", "v", "o", "i", "c", "e">>, <<"r", "e", "c", "e", "i", "p", "t">>}) THEN {<<"i", "n", "v", "o", "i", "c", "e", "s", "/", "r", "e", "c", "e", "i", "p", "t", "s">>} ELSE {})
                \cup (IF any({<<"s", "t", "a", "t", "e", "m", "e", "n", "t">>, <<"b", "a", "n", "k">>}) THEN {<<"b", "a", "n", "k", " ", "s", "t", "a", "t", "e", "m", "e", "n", "t", "s">>} ELSE {})
                \cup (IF any({<<"p", "a", "y", "r", "o", "l", "l">>, <<"s", "a", "l", "a", "r", "y">>}) THEN {<<"p", "a", "y", "r", "o", "l", "l">>} ELSE {}),
            !.Recommendations = <<"Organize by year and category",
                                  "Keep tax documents separate and secure",
                                  "Back up important financial records">>]

extractCreativeInsights(ins) ==
    [ins EXCEPT !.Topics = {<<"c", "r", "e", "a", "t", "i", "v", "e", " ", "w", "o", "r", "k">>, <<"d", "e", "s", "i", "g", "n", " ", "a", "s", "s", "e", "t", "s">>},
                !.Recommendations = <<"Browse through for inspiration",
                                      "Consider organizing by project or date",
                                      "Keep high-res originals backed up">>]

extractMixedInsights(ins, fs) ==
    LET sorted == sortSlice([i \in 1..Len(fs) |-> [name |-> fs[i].Name, key |-> fs[i].Size]])
        limit == Min(Len(sorted), 3)
    IN  [ins EXCEPT !.Topics = {<<"v", "a", "r", "i", "o", "u", "s", " ", "f", "i", "l", "e", "s">>},
                    !.KeyFiles = ins.KeyFiles \o Names(SubSeq(sorted, 1, limit)),
                    !.Recommendations = <<"Check the largest files first",
                                          "Sort by file type to organize">>]

\* the insight before AnalyzeDirectory has filled it
NoInsight ==
    [Domain |-> None, Topics |-> {}, DateRange |-> <<>>, KeyFiles |-> <<>>,
     FilesByCategory |-> EmptyMap, Recommendations |-> <<>>, Confidence |-> <<0, 1>>]

AnalyzeDirectory(fs, year) ==
    LET categories == categorizeFiles(fs)
        ins == [NoInsight EXCEPT !.FilesByCategory = categories,
                                 !.Domain = detectDomain(categories, fs),
                                 !.Confidence = calculateConfidence(categories)]
    IN  CASE ins.Domain = DomainSoftwareProject -> extractSoftwareInsights(ins, fs)
          [] ins.Domain \in {DomainDocuments, DomainStudyMaterials}
                -> extractDocumentInsights(ins, fs, year)
          [] ins.Domain = DomainMedia -> extractMediaInsights(ins, fs)
          [] ins.Domain = DomainFinancial -> extractFinancialInsights(ins, fs)
          [] ins.Domain = DomainCreative -> extractCreativeInsights(ins)
          [] OTHER -> extractMixedInsights(ins, fs)

-----------------------------------------------------------------------------
(* internal/scout/analysis.go: the prompt                                  *)

Units == <<"K", "M", "G", "T", "P", "E">>

\* the loop of formatBytes: the divisor and the exponent of the unit
RECURSIVE unitOf(_, _, _)
unitOf(n, div, exp) ==
    IF n >= 1024 THEN unitOf(n \div 1024, div * 1024, exp + 1) ELSE [div |-> div, exp |-> exp]

\* b / div printed by %.1f: the number of tenths, rounded to nearest, a tie to even
Tenths(b, div) ==
    LET q == (10 * b) \div div
        r == (10 * b) % div
    IN  IF 2 * r > div \/ (2 * r = div /\ q % 2 = 1) THEN q + 1 ELSE q

formatBytes(b) ==
    IF b < 1024 THEN Itoa(b) \o <<" ", "B">>
    ELSE LET u == unitOf(b \div 1024, 1024, 0)
             t == Tenths(b, u.div)
         IN  Itoa(t \div 10) \o <<".">> \o Itoa(t % 10) \o <<" ", Units[u.exp + 1], "B">>

\* the entry of the first file of the summary with the name of a key file
KeyFileContext(f) ==
    [name |-> f.Name, extension |-> f.Extension, size_formatted |-> formatBytes(f.Size),
     metadata |-> f.Metadata]

RECURSIVE keyFilesCtx(_, _, _)
keyFilesCtx(keyFiles, k, files) ==
    IF k > Len(keyFiles) THEN <<>>
    ELSE LET matches == {i \in 1..Len(files) : files[i].Name = keyFiles[k]}
         IN  (IF matches = {} THEN <<>>
              ELSE <<KeyFileContext(files[CHOOSE i \in matches : \A j \in matches : i <= j])>>)
             \o keyFilesCtx(keyFiles, k + 1, files)

\* the context data of the prompt
GeneratePrompt(ins, sum) ==
    [built |-> TRUE,
     stats |-> ins.FilesByCategory,
     total_files |-> sum.FileCount,
     domain_detected |-> ins.Domain,
     key_files_data |-> keyFilesCtx(ins.KeyFiles, 1, sum.Files),
     topics |-> ins.Topics]

-----------------------------------------------------------------------------
(* internal/extractor                                                      *)

textExt == <<<<".", "t", "x", "t">>, <<".", "m", "d">>, <<".", "j", "s", "o", "n">>, <<".", "y", "a", "m", "l">>, <<".", "y", "m", "l">>, <<".", "p", "d", "f">>, <<".", "d", "o", "c">>, <<"d", "o", "c", "x">>,
             <<".", "x", "m", "l">>, <<".", "c", "s", "v">>, <<".", "i", "n", "i">>, <<".", "c", "f", "g">>, <<".", "g", "o">>, <<".", "p", "y">>, <<".", "j", "s">>, <<".", "t", "s">>,
             <<".", "j", "a", "v", "a">>, <<".", "s", "w", "i", "f", "t">>, <<".", "r", "b">>, <<".", "r", "s">>, <<".", "p", "h", "p">>, <<".", "c", "s", "s">>, <<".", "h", "t", "m", "l">>,
             <<".", "c">>, <<".", "c", "p", "p">>, <<".", "h">>, <<".", "h", "p", "p">>, <<".", "c", "m", "a", "k", "e">>, <<".", "s", "h">>>>

\* the allow-list compared without lowercasing the extension
IsTextFileExact(ext) == \E i \in 1..Len(textExt) : textExt[i] = ext

IsTextFile(ext) == \E i \in 1..Len(textExt) : textExt[i] = ToLower(ext)

DetectCategory(ext) ==
    CASE ext \in {<<".", "g", "o">>, <<".", "d", "a", "r", "t">>, <<".", "j", "s">>, <<".", "t", "s">>, <<".", "p", "y">>, <<".", "j", "a", "v", "a">>, <<".", "r", "b">>,
                  <<".", "r", "s">>, <<".", "c">>, <<".", "c", "p", "p">>} -> "CodeExtractor"
      [] ext = <<".", "p", "d", "f">> -> "PDFExtractor"
      [] ext \in {<<".", "d", "o", "c", "x">>, <<".", "d", "o", "c">>} -> "DocxExtractor"
      [] ext \in {<<".", "x", "l", "s", "x">>, <<".", "x", "l", "s">>} -> "ExcelExtractor"
      [] ext \in {<<".", "m", "d">>, <<".", "t", "x", "t">>} -> "MarkdownExtractor"
      [] ext \in {<<".", "j", "s", "o", "n">>, <<".", "y", "a", "m", "l">>, <<".", "y", "m", "l">>, <<".", "t", "o", "m", "l">>, <<".", "e", "n", "v">>, <<".", "x", "m", "l">>, <<".", "c", "s", "v">>,
                  <<".", "c", "m", "a", "k", "e">>} -> "GenericTextExtractor"
      [] ext \in {<<".", "p", "n", "g">>, <<".", "j", "p", "g">>, <<".", "j", "p", "e", "g">>, <<".", "m", "p", "3">>, <<".", "m", "p", "4">>} -> "BinaryExtractor"
      [] OTHER -> IF IsTextFile(ext) THEN "GenericTextExtractor" ELSE "BinaryExtractor"

\* Extract with a PDF extractor that returns the failure of pdf.Open as an error
ExtractPdfHardFailure(extractor, readable) ==
    CASE ~readable -> [err |-> TRUE, Category |-> ""]
      [] extractor = "PDFExtractor" -> [err |-> FALSE, Category |-> "document"]
      [] extractor = "CodeExtractor" -> [err |-> FALSE, Category |-> "code"]
      [] extractor = "DocxExtractor" -> [err |-> FALSE, Category |-> "document"]
      [] extractor = "ExcelExtractor" -> [err |-> FALSE, Category |-> "spreadsheet"]
      [] extractor = "MarkdownExtractor" -> [err |-> FALSE, Category |-> "markdown"]
      [] extractor = "GenericTextExtractor" -> [err |-> FALSE, Category |-> "text"]
      [] OTHER -> [err |-> FALSE, Category |-> "binary"]

\* Extract of each extractor; readable is whether the file can be opened and parsed.
\* The PDF extractor turns a failure into a placeholder record and returns no error.
Extract(extractor, readable) ==
    CASE extractor = "PDFExtractor" -> [err |-> FALSE, Category |-> "document"]
      [] ~readable -> [err |-> TRUE, Category |-> ""]
      [] extractor = "CodeExtractor" -> [err |-> FALSE, Category |-> "code"]
      [] extractor = "DocxExtractor" -> [err |-> FALSE, Category |-> "document"]
      [] extractor = "ExcelExtractor" -> [err |-> FALSE, Category |-> "spreadsheet"]
      [] extractor = "MarkdownExtractor" -> [err |-> FALSE, Category |-> "markdown"]
      [] extractor = "GenericTextExtractor" -> [err |-> FALSE, Category |-> "text"]
      [] OTHER -> [err |-> FALSE, Category |-> "binary"]

-----------------------------------------------------------------------------
(* internal/scout/scout.go                                                 *)

\* the FileSummary that the loop of Run builds for one scanned file
FileSummary(file, readable) ==
    LET content == Extract(DetectCategory(file.FileExt), readable)
    IN  [Name |-> file.Name,
         Type |-> IF content.err THEN "unknown" ELSE content.Category,
         Extension |-> file.FileExt,
         Size |-> file.Size,
         Metadata |-> ~content.err]

\* the FileInfo that the scanner records for a regular file
FileInfo(name, path, size) ==
    [Name |-> name, Path |-> path, Type |-> "File",
     FileExt |-> ToLower(Ext(name)), Size |-> size]

NoSummary == [Directory |-> <<>>, FileCount |-> 0, Subdirectories |-> <<>>, Files |-> <<>>]

-----------------------------------------------------------------------------
(* Input families of the classifier: the file names and sizes a scanned    *)
(* directory may hold.  A family is listed in the order of the walk.       *)

SoftwareFamily ==
    <<[Name |-> <<"G", "E", "M", "F", "I", "L", "E">>, Size |-> 40],
      [Name |-> <<"R", "E", "A", "D", "M", "E", ".", "m", "d">>, Size |-> 900],
      [Name |-> <<"a", "p", "p", ".", "y", "a", "m", "l">>, Size |-> 50],
      [Name |-> <<"g", "o", ".", "m", "o", "d">>, Size |-> 30],
      [Name |-> <<"l", "o", "g", "o", ".", "p", "n", "g">>, Size |-> 20000],
      [Name |-> <<"m", "a", "i", "n", ".", "g", "o">>, Size |-> 120]>>

DocumentFamily ==
    <<[Name |-> <<"L", "e", "c", "t", "u", "r", "e", "_", "N", "o", "t", "e", "s", ".", "d", "o", "c", "x">>, Size |-> 700000],
      [Name |-> <<"b", "u", "d", "g", "e", "t", ".", "c", "s", "v">>, Size |-> 800],
      [Name |-> <<"i", "n", "v", "o", "i", "c", "e", ".", "p", "d", "f">>, Size |-> 1200000],
      [Name |-> <<"l", "a", "t", "e", "s", "t", ".", "p", "n", "g">>, Size |-> 3000],
      [Name |-> <<"r", "e", "p", "o", "r", "t", ".", "p", "d", "f">>, Size |-> 5000],
      [Name |-> <<"t", "a", "x", "_", "n", "o", "t", "e", "s", ".", "t", "x", "t">>, Size |-> 60]>>

MediaFamily ==
    <<[Name |-> <<"L", "o", "g", "o", ".", "P", "N", "G">>, Size |-> 9000],
      [Name |-> <<"a", ".", "z", "i", "p">>, Size |-> 300],
      [Name |-> <<"d", "r", "a", "f", "t", ".", "m", "p", "4">>, Size |-> 5000000],
      [Name |-> <<"m", "o", "c", "k", "u", "p", ".", "s", "v", "g">>, Size |-> 700],
      [Name |-> <<"p", "h", "o", "t", "o", ".", "j", "p", "g">>, Size |-> 40000],
      [Name |-> <<"s", "o", "n", "g", ".", "m", "p", "3">>, Size |-> 3000000]>>

MixedFamily ==
    <<[Name |-> <<"a", ".", "z", "i", "p">>, Size |-> 300],
      [Name |-> <<"b", ".", "e", "x", "e">>, Size |-> 2000000],
      [Name |-> <<"c", ".", "l", "o", "g">>, Size |-> 100],
      [Name |-> <<"c", ".", "l", "o", "g">>, Size |-> 900000],
      [Name |-> <<"d", ".", "b", "a", "k">>, Size |-> 600000],
      [Name |-> <<"d", "a", "t", "a", ".", "c", "s", "v">>, Size |-> 50],
      [Name |-> <<"e", ".", "d", "a", "t">>, Size |-> 100]>>

\* the same names with different sizes, for two invocations on one directory
PureFamily ==
    <<[Name |-> <<"m", "a", "i", "n", ".", "g", "o">>, Size |-> 120],
      [Name |-> <<"m", "a", "i", "n", ".", "g", "o">>, Size |-> 2000000],
      [Name |-> <<"n", "o", "t", "e", "s", "_", "2", "0", "2", "6", ".", "p", "d", "f">>, Size |-> 5000],
      [Name |-> <<"n", "o", "t", "e", "s", "_", "2", "0", "2", "6", ".", "p", "d", "f">>, Size |-> 1500000],
      [Name |-> <<"p", "h", "o", "t", "o", ".", "j", "p", "g">>, Size |-> 40000]>>

\* documents with and without a priority keyword: three that the keyword pass
\* of extractDocumentInsights selects, two that only the scored ranking knows,
\* and a .doc file, which the keyword pass does not read
PriorityFamily ==
    <<[Name |-> <<"F", "i", "n", "a", "l", "_", "E", "x", "a", "m", ".", "p", "d", "f">>, Size |-> 5000],
      [Name |-> <<"G", "u", "i", "d", "e", ".", "d", "o", "c", "x">>, Size |-> 700000],
      [Name |-> <<"h", "a", "n", "d", "b", "o", "o", "k", ".", "p", "d", "f">>, Size |-> 6000],
      [Name |-> <<"l", "e", "c", "t", "u", "r", "e", ".", "p", "d", "f">>, Size |-> 1200000],
      [Name |-> <<"o", "v", "e", "r", "v", "i", "e", "w", ".", "d", "o", "c">>, Size |-> 800],
      [Name |-> <<"s", "u", "m", "m", "a", "r", "y", "_", "2", "0", "2", "6", ".", "p", "d", "f">>, Size |-> 900]>>

\* one file of every category, with both kinds of config file; the two hidden
\* names reach categorizeFiles in a summary handed to AnalyzeDirectory
CategoryFamily ==
    <<[Name |-> <<".", "e", "n", "v">>, Size |-> 20],
      [Name |-> <<".", "g", "i", "t", "i", "g", "n", "o", "r", "e">>, Size |-> 30],
      [Name |-> <<"a", ".", "p", "d", "f">>, Size |-> 5000],
      [Name |-> <<"a", "p", "p", ".", "y", "a", "m", "l">>, Size |-> 50],
      [Name |-> <<"b", ".", "d", "o", "c", "x">>, Size |-> 6000],
      [Name |-> <<"c", ".", "c", "s", "v">>, Size |-> 800],
      [Name |-> <<"d", ".", "p", "p", "t", "x">>, Size |-> 9000],
      [Name |-> <<"e", ".", "t", "x", "t">>, Size |-> 60],
      [Name |-> <<"f", ".", "p", "n", "g">>, Size |-> 3000],
      [Name |-> <<"g", ".", "m", "p", "4">>, Size |-> 5000000],
      [Name |-> <<"h", ".", "m", "p", "3">>, Size |-> 400000],
      [Name |-> <<"i", ".", "z", "i", "p">>, Size |-> 300],
      [Name |-> <<"j", ".", "b", "i", "n">>, Size |-> 100],
      [Name |-> <<"m", "a", "i", "n", ".", "g", "o">>, Size |-> 120]>>

Families ==
    <<[items |-> SoftwareFamily, max |-> MaxFiles, readable |-> {TRUE}],
      [items |-> DocumentFamily, max |-> MaxFiles, readable |-> {TRUE}],
      [items |-> MediaFamily, max |-> MaxFiles, readable |-> {TRUE}],
      [items |-> MixedFamily, max |-> MaxFiles, readable |-> {TRUE}],
      [items |-> PureFamily, max |-> MaxPureFiles, readable |-> {TRUE}],
      [items |-> CategoryFamily, max |-> MaxCategoryFiles, readable |-> {TRUE}],
      [items |-> PriorityFamily, max |-> MaxPriorityFiles, readable |-> {TRUE}]>>

ClassifierFamilies == (1..4) \cup {6}
PureFamilyIndex == 5
PriorityFamilyIndex == 7

CurrentYears == {2026, 2027}

\* the summary entries Run builds from the items of a family
FamilySummaries ==
    [p \in 1..Len(Families) |->
        [i \in 1..Len(Families[p].items), readable \in BOOLEAN |->
            LET item == Families[p].items[i]
            IN  FileSummary(FileInfo(item.Name, <<item.Name>>, item.Size), readable)]]

\* index of the family item a summary entry was built from
ItemIndex(p, f) ==
    CHOOSE i \in 1..Len(Families[p].items) :
        Families[p].items[i].Name = f.Name /\ Families[p].items[i].Size = f.Size

NoPrev == [used |-> FALSE, summary |-> NoSummary, insight |-> NoInsight, year |-> 0]

NoRoot == [exists |-> FALSE]

NoScan == [Path |-> <<>>, Files |-> <<>>, Subdirectories |-> <<>>]

NoImportant == [called |-> FALSE]

NoDispatch == [called |-> FALSE]

NoPayload == [built |-> FALSE]

\* the directory the shell is started in, as the elements of its path
StartDir == <<<<"h", "o", "m", "e">>, <<"p", "r", "o", "j">>>>

\* the report files on disk: a function from the path of a file to its lines
NoReports == [path \in {} |-> <<>>]

NoCommand == [handler |-> None]
-----------------------------------------------------------------------------
(* The directory tree handed to the scanner.  An entry is a regular file   *)
(* or a directory with its entries in the order os.ReadDir returns them    *)
(* (sorted by name); readable is whether os.ReadDir succeeds on it and     *)
(* statOK whether DirEntry.Info succeeds on it.                            *)

FileEntry(name, size, statOK) ==
    [name |-> name, isDir |-> FALSE, children |-> <<>>, readable |-> TRUE,
     statOK |-> statOK, size |-> size]

DirEntry(name, children, readable) ==
    [name |-> name, isDir |-> TRUE, children |-> children, readable |-> readable,
     statOK |-> TRUE, size |-> 4096]

\* the entries a root directory may hold, each in its variants
Candidates ==
    <<{FileEntry(<<".", "e", "n", "v">>, 20, TRUE)},
      {DirEntry(<<".", "g", "i", "t">>, <<FileEntry(<<"c", "o", "n", "f", "i", "g">>, 90, TRUE)>>, TRUE)},
      {FileEntry(<<"N", "o", "t", "e", "s", ".", "P", "D", "F">>, 7000, TRUE)},
      {FileEntry(<<"m", "a", "i", "n", ".", "g", "o">>, 120, ok) : ok \in BOOLEAN},
      {DirEntry(<<"n", "o", "d", "e", "_", "m", "o", "d", "u", "l", "e", "s">>, <<FileEntry(<<"x", ".", "j", "s">>, 300, TRUE)>>, TRUE)},
      {DirEntry(<<"s", "u", "b">>, <<FileEntry(<<".", "h", "i", "d", "d", "e", "n">>, 1, TRUE), FileEntry(<<"g", "o", ".", "m", "o", "d">>, 30, TRUE),
                         FileEntry(<<"m", "a", "i", "n", ".", "g", "o">>, 4000, TRUE)>>, r) :
          r \in BOOLEAN}>>

\* every listing that holds, in order, one variant of some of the candidates
RECURSIVE Listings(_)
Listings(i) ==
    IF i > Len(Candidates) THEN {<<>>}
    ELSE LET rest == Listings(i + 1)
         IN  rest \cup {<<e>> \o l : e \in Candidates[i], l \in rest}

RootNames == {<<"p", "r", "o", "j">>, <<".", "c", "a", "c", "h", "e">>}

Roots ==
    {[exists |-> FALSE, name |-> <<"p", "r", "o", "j">>, isDir |-> FALSE, children |-> <<>>,
      readable |-> FALSE, statOK |-> FALSE, size |-> 0]}
    \cup {[exists |-> TRUE] @@ FileEntry(<<"m", "a", "i", "n", ".", "g", "o">>, 120, TRUE)}
    \cup {[exists |-> TRUE] @@ DirEntry(n, l, r) :
             n \in RootNames, l \in Listings(1), r \in BOOLEAN}

RootPath(r) == <<r.name>>

-----------------------------------------------------------------------------
(* internal/scanner/scanner.go                                             *)

\* the function without the pruning of hidden directories
walkFnNoSkipDir(sc, rootPath, path, d, err) ==
    IF err THEN [ret |-> "nil", scan |-> sc, panic |-> FALSE]
    ELSE IF HasPrefix(d.name, <<".">>)
        THEN [ret |-> "nil", scan |-> sc, panic |-> FALSE]
    ELSE IF d.isDir /\ path # rootPath
        THEN [ret |-> "nil",
              scan |-> [sc EXCEPT !.Subdirectories = Append(@, path)],
              panic |-> FALSE]
    ELSE IF ~d.isDir
        THEN IF ~d.statOK
             THEN [ret |-> "nil", scan |-> sc, panic |-> TRUE]
             ELSE [ret |-> "nil",
                   scan |-> [sc EXCEPT !.Files = Append(@, FileInfo(d.name, path, d.size))],
                   panic |-> FALSE]
    ELSE [ret |-> "nil", scan |-> sc, panic |-> FALSE]

\* the function ScanDirectory hands to filepath.WalkDir: the updated result and
\* the returned error, or a panic where a nil FileInfo is dereferenced
walkFn(sc, rootPath, path, d, err) ==
    IF err THEN [ret |-> "nil", scan |-> sc, panic |-> FALSE]
    ELSE IF HasPrefix(d.name, <<".">>)
        THEN [ret |-> IF d.isDir THEN "SkipDir" ELSE "nil", scan |-> sc, panic |-> FALSE]
    ELSE IF d.isDir /\ path # rootPath
        THEN [ret |-> "nil",
              scan |-> [sc EXCEPT !.Subdirectories = Append(@, path)],
              panic |-> FALSE]
    ELSE IF ~d.isDir
        THEN IF ~d.statOK
             THEN [ret |-> "nil", scan |-> sc, panic |-> TRUE]
             ELSE [ret |-> "nil",
                   scan |-> [sc EXCEPT !.Files = Append(@, FileInfo(d.name, path, d.size))],
                   panic |-> FALSE]
    ELSE [ret |-> "nil", scan |-> sc, panic |-> FALSE]

\* Run with a file count that includes the subdirectories
ReturnedCountingDirectories(err, sc) ==
    /\ scanErr' = err
    /\ scan' = sc
    /\ todo' = <<>>
    /\ IF err # "nil"
       THEN /\ pc' = "done"
            /\ runResult' = "error"
            /\ summary' = NoSummary
       ELSE /\ pc' = "extract"
            /\ runResult' = "pending"
            /\ summary' = [Directory |-> RootPath(root),
                           FileCount |-> Len(sc.Files) + Len(sc.Subdirectories),
                           Subdirectories |-> sc.Subdirectories, Files |-> <<>>]

\* ScanDirectory returns err; Run returns it too, or starts its loop on the result
Returned(err, sc) ==
    /\ scanErr' = err
    /\ scan' = sc
    /\ todo' = <<>>
    /\ IF err # "nil"
       THEN /\ pc' = "done"
            /\ runResult' = "error"
            /\ summary' = NoSummary
       ELSE /\ pc' = "extract"
            /\ runResult' = "pending"
            /\ summary' = [Directory |-> RootPath(root), FileCount |-> Len(sc.Files),
                           Subdirectories |-> sc.Subdirectories, Files |-> <<>>]

\* the error filepath.WalkDir returns for the error of the function
WalkDirError(ret) == IF ret = "SkipDir" THEN "nil" ELSE ret

WalkEntry(entry, path) == [entry |-> entry, path |-> path]

ChildEntries(entry, path) ==
    [i \in 1..Len(entry.children) |->
        WalkEntry(entry.children[i], path \o <<entry.children[i].name>>)]

\* Run calls ScanDirectory; filepath.WalkDir stats the root
StartScan ==
    /\ pc = "scan"
    /\ idx' = 1
    /\ IF ~root.exists
       THEN LET r == walkFn([scan EXCEPT !.Path = RootPath(root)],
                            RootPath(root), RootPath(root), root, TRUE)
            IN  Returned(WalkDirError(r.ret), r.scan)
       ELSE /\ todo' = <<WalkEntry(root, RootPath(root))>>
            /\ scan' = [scan EXCEPT !.Path = RootPath(root)]
            /\ pc' = "walk"
            /\ UNCHANGED <<summary, scanErr, runResult>>
    /\ UNCHANGED <<pool, insight, prev, currentYear, root>>
    /\ UNCHANGED <<important, dispatch, payload, unreadable, cwd, reports, last, entered>>

\* filepath.WalkDir visits the next entry: the function is called on it and,
\* for a directory that is not skipped, its entries are read
Visit ==
    /\ pc = "walk"
    /\ todo # <<>>
    /\ LET head == todo[1]
           d == head.entry
           r == walkFn(scan, RootPath(root), head.path, d, FALSE)
       IN  IF r.panic
           THEN /\ pc' = "panic"
                /\ runResult' = "panic"
                /\ UNCHANGED <<todo, scan, scanErr, summary>>
           ELSE IF r.ret \notin {"nil", "SkipDir"}
           THEN Returned(WalkDirError(r.ret), r.scan)
           ELSE IF r.ret = "SkipDir" \/ ~d.isDir
           THEN /\ todo' = Tail(todo)
                /\ scan' = r.scan
                /\ UNCHANGED <<pc, scanErr, summary, runResult>>
           ELSE IF ~d.readable
           THEN LET r2 == walkFn(r.scan, RootPath(root), head.path, d, TRUE)
                IN  IF r2.ret \notin {"nil", "SkipDir"}
                    THEN Returned(WalkDirError(r2.ret), r2.scan)
                    ELSE /\ todo' = Tail(todo)
                         /\ scan' = r2.scan
                         /\ UNCHANGED <<pc, scanErr, summary, runResult>>
           ELSE /\ todo' = ChildEntries(d, head.path) \o Tail(todo)
                /\ scan' = r.scan
                /\ UNCHANGED <<pc, scanErr, summary, runResult>>
    /\ UNCHANGED <<pool, insight, prev, currentYear, root, idx>>
    /\ UNCHANGED <<important, dispatch, payload, unreadable, cwd, reports, last, entered>>

\* the walk is over: ScanDirectory returns its result
FinishScan ==
    /\ pc = "walk"
    /\ todo = <<>>
    /\ Returned("nil", scan)
    /\ UNCHANGED <<pool, insight, prev, currentYear, root, idx>>
    /\ UNCHANGED <<important, dispatch, payload, unreadable, cwd, reports, last, entered>>

\* the loop of Run, dropping the files whose extraction fails
ExtractFileDropFailed ==
    /\ pc = "extract"
    /\ idx <= Len(scan.Files)
    /\ idx' = idx + 1
    /\ LET file == scan.Files[idx]
       IN  IF file.Type = "Directory"
           THEN UNCHANGED <<summary, unreadable>>
           ELSE \E readable \in BOOLEAN :
                   IF Extract(DetectCategory(file.FileExt), readable).err
                   THEN UNCHANGED <<summary, unreadable>>
                   ELSE /\ summary' = [summary EXCEPT !.Files = Append(@, FileSummary(file, readable))]
                        /\ unreadable' = IF readable THEN unreadable
                                         ELSE unreadable \cup {Len(summary.Files) + 1}
    /\ UNCHANGED <<pc, pool, insight, prev, currentYear, root, todo, scan, scanErr, runResult>>
    /\ UNCHANGED <<important, dispatch, payload, cwd, reports, last, entered>>

\* one iteration of the loop of Run over the scanned files
ExtractFile ==
    /\ pc = "extract"
    /\ idx <= Len(scan.Files)
    /\ idx' = idx + 1
    /\ LET file == scan.Files[idx]
       IN  IF file.Type = "Directory"
           THEN UNCHANGED <<summary, unreadable>>
           ELSE \E readable \in BOOLEAN :
                   /\ summary' = [summary EXCEPT !.Files = Append(@, FileSummary(file, readable))]
                   /\ unreadable' = IF readable THEN unreadable
                                    ELSE unreadable \cup {Len(summary.Files) + 1}
    /\ UNCHANGED <<pc, pool, insight, prev, currentYear, root, todo, scan, scanErr, runResult>>
    /\ UNCHANGED <<important, dispatch, payload, cwd, reports, last, entered>>

-----------------------------------------------------------------------------
(* The classifier applied to a directory summary                           *)

InitAnalysis ==
    /\ pc = "input"
    /\ pool \in ClassifierFamilies
    /\ summary = NoSummary
    /\ insight = NoInsight
    /\ prev = NoPrev
    /\ currentYear = 2026
    /\ root = NoRoot
    /\ todo = <<>>
    /\ scan = NoScan
    /\ scanErr = "pending"
    /\ idx = 1
    /\ runResult = "pending"
    /\ important = NoImportant
    /\ dispatch = NoDispatch
    /\ payload = NoPayload
    /\ unreadable = {}
    /\ cwd = StartDir
    /\ reports = NoReports
    /\ last = NoCommand
    /\ entered = 0

\* one more entry of the summary, as the loop of Run appends it
AddFile ==
    /\ pc = "input"
    /\ Len(summary.Files) < Families[pool].max
    /\ \E i \in 1..Len(Families[pool].items), readable \in Families[pool].readable :
          /\ summary.Files # <<>> =>
                ItemIndex(pool, summary.Files[Len(summary.Files)]) <= i
          /\ summary' = [summary EXCEPT
                            !.Files = Append(@, FamilySummaries[pool][i, readable]),
                            !.FileCount = @ + 1]
    /\ UNCHANGED <<pc, pool, insight, prev, currentYear, root, todo, scan, scanErr, idx, runResult>>
    /\ UNCHANGED <<important, dispatch, payload, unreadable, cwd, reports, last, entered>>

\* insight := AnalyzeDirectory(summary)
Analyze ==
    /\ \/ pc = "input"
       \/ pc = "extract" /\ idx > Len(scan.Files)
    /\ insight' = AnalyzeDirectory(summary.Files, currentYear)
    /\ pc' = "done"
    /\ runResult' = "summary"
    /\ UNCHANGED <<pool, summary, prev, currentYear, root, todo, scan, scanErr, idx>>
    /\ UNCHANGED <<important, dispatch, payload, unreadable, cwd, reports, last, entered>>

\* HandleScout builds the prompt from the results of Run
BuildPrompt ==
    /\ pc = "done"
    /\ runResult = "summary"
    /\ payload' = GeneratePrompt(insight, summary)
    /\ pc' = "prompted"
    /\ UNCHANGED <<pool, summary, insight, prev, currentYear, root, todo, scan, scanErr, idx,
                   runResult, important, dispatch>>
    /\ UNCHANGED <<unreadable, cwd, reports, last, entered>>

NextAnalysis == AddFile \/ Analyze

Spec == InitAnalysis /\ [][NextAnalysis]_vars

-----------------------------------------------------------------------------
(* Two invocations on directories drawn from one family                    *)

InitPure ==
    /\ pc = "input"
    /\ pool = PureFamilyIndex
    /\ summary = NoSummary
    /\ insight = NoInsight
    /\ prev = NoPrev
    /\ currentYear \in CurrentYears
    /\ root = NoRoot
    /\ todo = <<>>
    /\ scan = NoScan
    /\ scanErr = "pending"
    /\ idx = 1
    /\ runResult = "pending"
    /\ important = NoImportant
    /\ dispatch = NoDispatch
    /\ payload = NoPayload
    /\ unreadable = {}
    /\ cwd = StartDir
    /\ reports = NoReports
    /\ last = NoCommand
    /\ entered = 0

\* the invocation is over; a later one starts from scratch, at a later time
Again ==
    /\ pc = "done"
    /\ ~prev.used
    /\ prev' = [used |-> TRUE, summary |-> summary, insight |-> insight, year |-> currentYear]
    /\ summary' = NoSummary
    /\ insight' = NoInsight
    /\ pc' = "input"
    /\ runResult' = "pending"
    /\ currentYear' \in CurrentYears
    /\ UNCHANGED <<pool, root, todo, scan, scanErr, idx>>
    /\ UNCHANGED <<important, dispatch, payload, unreadable, cwd, reports, last, entered>>

NextPure == AddFile \/ Analyze \/ Again

SpecPure == InitPure /\ [][NextPure]_vars

-----------------------------------------------------------------------------
(* Run on a directory tree                                                 *)

InitScan ==
    /\ pc = "scan"
    /\ pool = 0
    /\ summary = NoSummary
    /\ insight = NoInsight
    /\ prev = NoPrev
    /\ currentYear = 2026
    /\ root \in Roots
    /\ todo = <<>>
    /\ scan = NoScan
    /\ scanErr = "pending"
    /\ idx = 1
    /\ runResult = "pending"
    /\ important = NoImportant
    /\ dispatch = NoDispatch
    /\ payload = NoPayload
    /\ unreadable = {}
    /\ cwd = StartDir
    /\ reports = NoReports
    /\ last = NoCommand
    /\ entered = 0

NextScan == StartScan \/ Visit \/ FinishScan \/ ExtractFile \/ Analyze \/ BuildPrompt

SpecScan == InitScan /\ [][NextScan]_vars

-----------------------------------------------------------------------------
(* Directories longer than the insertion threshold of sort.Slice           *)

\* the longest file list of the model
LongList == maxInsertion + 1

\* four families of numbered files, each with a smaller and a larger size:
\* files of no known category, PDF documents below and above the 1 MB bonus,
\* and files of no known category that are all, or only in part, above the
\* 500 KB threshold of the fallback of findImportantDocs
UnrelatedPool == 8
DocumentPool == 9
BigPool == 10
PartlyBigPool == 11
LongPools == {UnrelatedPool, DocumentPool, BigPool, PartlyBigPool}

LongSizes(p) ==
    IF p = UnrelatedPool THEN {100, 200}
    ELSE IF p = DocumentPool THEN {500, 2000000}
    ELSE IF p = BigPool THEN {600000, 2000000}
    ELSE {100, 600000}

LargeSize(p) ==
    IF p = UnrelatedPool THEN 200
    ELSE IF p = PartlyBigPool THEN 600000
    ELSE 2000000

TwoDigits(k) == IF k < 10 THEN <<"0">> \o Itoa(k) ELSE Itoa(k)

\* f01.dat, f02.dat, ...; d01.pdf, d02.pdf, ...: the order of the walk
LongName(p, k) ==
    IF p = UnrelatedPool THEN <<"f">> \o TwoDigits(k) \o <<".", "d", "a", "t">>
    ELSE IF p = DocumentPool THEN <<"d">> \o TwoDigits(k) \o <<".", "p", "d", "f">>
    ELSE IF p = BigPool THEN <<"b">> \o TwoDigits(k) \o <<".", "d", "a", "t">>
    ELSE <<"m">> \o TwoDigits(k) \o <<".", "d", "a", "t">>

LargeCount == Cardinality({i \in 1..Len(summary.Files) : summary.Files[i].Size = LargeSize(pool)})

InitLong ==
    /\ pc = "input"
    /\ pool \in LongPools
    /\ summary = NoSummary
    /\ insight = NoInsight
    /\ prev = NoPrev
    /\ currentYear = 2026
    /\ root = NoRoot
    /\ todo = <<>>
    /\ scan = NoScan
    /\ scanErr = "pending"
    /\ idx = 1
    /\ runResult = "pending"
    /\ important = NoImportant
    /\ dispatch = NoDispatch
    /\ payload = NoPayload
    /\ unreadable = {}
    /\ cwd = StartDir
    /\ reports = NoReports
    /\ last = NoCommand
    /\ entered = 0

\* one more entry of the summary: the next numbered file, small or large
AddNumberedFile ==
    /\ pc = "input"
    /\ Len(summary.Files) < LongList
    /\ \E size \in LongSizes(pool) :
          /\ size = LargeSize(pool) => LargeCount < MaxLarge
          /\ LET name == LongName(pool, Len(summary.Files) + 1)
             IN  summary' = [summary EXCEPT
                                !.Files = Append(@, FileSummary(FileInfo(name, <<name>>, size), TRUE)),
                                !.FileCount = @ + 1]
    /\ UNCHANGED <<pc, pool, insight, prev, currentYear, root, todo, scan, scanErr, idx, runResult>>
    /\ UNCHANGED <<important, dispatch, payload, unreadable, cwd, reports, last, entered>>

\* the limits findImportantDocs is called with
Limits == (0 - 1)..MaxLimit

\* findImportantDocs(files, limit) on the files of the summary
FindImportantDocs ==
    /\ pc = "input"
    /\ \E limit \in Limits :
          important' = [called |-> TRUE, limit |-> limit,
                        names |-> findImportantDocs(summary.Files, limit, currentYear)]
    /\ pc' = "called"
    /\ UNCHANGED <<pool, summary, insight, prev, currentYear, root, todo, scan, scanErr, idx,
                   runResult, dispatch, payload>>
    /\ UNCHANGED <<unreadable, cwd, reports, last, entered>>

NextLong == AddNumberedFile \/ Analyze \/ FindImportantDocs

SpecLong == InitLong /\ [][NextLong]_vars

-----------------------------------------------------------------------------
(* DetectCategory applied to an extension                                  *)

\* the extensions of the dispatch table and of the text allow-list, two
\* unknown ones and the empty extension of a file name without a dot
LowerExtensions ==
    {<<".", "g", "o">>, <<".", "d", "a", "r", "t">>, <<".", "j", "s">>, <<".", "t", "s">>, <<".", "p", "y">>, <<".", "j", "a", "v", "a">>, <<".", "r", "b">>, <<".", "r", "s">>, <<".", "c">>,
     <<".", "c", "p", "p">>, <<".", "p", "d", "f">>, <<".", "d", "o", "c", "x">>, <<".", "d", "o", "c">>, <<".", "x", "l", "s", "x">>, <<".", "x", "l", "s">>, <<".", "m", "d">>, <<".", "t", "x", "t">>,
     <<".", "j", "s", "o", "n">>, <<".", "y", "a", "m", "l">>, <<".", "y", "m", "l">>, <<".", "t", "o", "m", "l">>, <<".", "e", "n", "v">>, <<".", "x", "m", "l">>, <<".", "c", "s", "v">>, <<".", "c", "m", "a", "k", "e">>,
     <<".", "p", "n", "g">>, <<".", "j", "p", "g">>, <<".", "j", "p", "e", "g">>, <<".", "m", "p", "3">>, <<".", "m", "p", "4">>,
     <<".", "i", "n", "i">>, <<".", "c", "f", "g">>, <<".", "s", "w", "i", "f", "t">>, <<".", "p", "h", "p">>, <<".", "c", "s", "s">>, <<".", "h", "t", "m", "l">>, <<".", "h">>, <<".", "h", "p", "p">>,
     <<".", "s", "h">>, <<".", "z", "i", "p">>, <<".", "e", "x", "e">>, <<>>}

upperOf == [c \in {LowerCase[i] : i \in 1..26} |->
               UpperCase[CHOOSE i \in 1..26 : LowerCase[i] = c]]

ToUpperChar(c) == IF c \in DOMAIN upperOf THEN upperOf[c] ELSE c

ToUpper(s) == [i \in 1..Len(s) |-> ToUpperChar(s[i])]

\* the extension with its first letter in upper case
Capitalized(s) == [i \in 1..Len(s) |-> IF i = 2 THEN ToUpperChar(s[i]) ELSE s[i]]

\* the extensions DetectCategory is called with: as written in a file name
Extensions ==
    LowerExtensions \cup {ToUpper(e) : e \in LowerExtensions}
                    \cup {Capitalized(e) : e \in LowerExtensions}

InitDispatch ==
    /\ pc = "input"
    /\ pool = 0
    /\ summary = NoSummary
    /\ insight = NoInsight
    /\ prev = NoPrev
    /\ currentYear = 2026
    /\ root = NoRoot
    /\ todo = <<>>
    /\ scan = NoScan
    /\ scanErr = "pending"
    /\ idx = 1
    /\ runResult = "pending"
    /\ important = NoImportant
    /\ dispatch = NoDispatch
    /\ payload = NoPayload
    /\ unreadable = {}
    /\ cwd = StartDir
    /\ reports = NoReports
    /\ last = NoCommand
    /\ entered = 0

\* extractor.DetectCategory(ext)
Detect ==
    /\ pc = "input"
    /\ \E ext \in Extensions :
          dispatch' = [called |-> TRUE, ext |-> ext, extractor |-> DetectCategory(ext)]
    /\ pc' = "called"
    /\ UNCHANGED <<pool, summary, insight, prev, currentYear, root, todo, scan, scanErr, idx,
                   runResult, important, payload>>
    /\ UNCHANGED <<unreadable, cwd, reports, last, entered>>

NextDispatch == Detect

SpecDispatch == InitDispatch /\ [][NextDispatch]_vars
-----------------------------------------------------------------------------
(* Directories of documents with priority keywords in their names          *)

InitPriority ==
    /\ pc = "input"
    /\ pool = PriorityFamilyIndex
    /\ summary = NoSummary
    /\ insight = NoInsight
    /\ prev = NoPrev
    /\ currentYear \in CurrentYears
    /\ root = NoRoot
    /\ todo = <<>>
    /\ scan = NoScan
    /\ scanErr = "pending"
    /\ idx = 1
    /\ runResult = "pending"
    /\ important = NoImportant
    /\ dispatch = NoDispatch
    /\ payload = NoPayload
    /\ unreadable = {}
    /\ cwd = StartDir
    /\ reports = NoReports
    /\ last = NoCommand
    /\ entered = 0

NextPriority == AddFile \/ Analyze

SpecPriority == InitPriority /\ [][NextPriority]_vars

-----------------------------------------------------------------------------
(* internal/shell: the interactive shell and the sc command                *)

\* the longest session of the model, in lines entered at the prompt
MaxCommands == 2

\* strings.Split(s, sep) for a separator of one character
RECURSIVE SplitFrom(_, _, _, _)
SplitFrom(s, sep, i, cur) ==
    IF i > Len(s) THEN <<cur>>
    ELSE IF s[i] = sep THEN <<cur>> \o SplitFrom(s, sep, i + 1, <<>>)
    ELSE SplitFrom(s, sep, i + 1, Append(cur, s[i]))

Split(s, sep) == SplitFrom(s, sep, 1, <<>>)

\* strings.Trim(s, cutset): s without its leading and trailing characters of cutset
RECURSIVE Trim(_, _)
Trim(s, cutset) ==
    IF s = <<>> THEN s
    ELSE IF s[1] \in cutset THEN Trim(Tail(s), cutset)
    ELSE IF s[Len(s)] \in cutset THEN Trim(SubSeq(s, 1, Len(s) - 1), cutset)
    ELSE s

TrimSpace(s) == Trim(s, {" ", "\t", "\n", "\r"})

\* filepath.Clean on the elements of a path below the root: empty and "."
\* elements are dropped, ".." removes the element before it
RECURSIVE Clean(_, _)
Clean(done, rest) ==
    IF rest = <<>> THEN done
    ELSE IF rest[1] = <<>> \/ rest[1] = <<".">> THEN Clean(done, Tail(rest))
    ELSE IF rest[1] = <<".", ".">>
        THEN Clean(IF done = <<>> THEN done ELSE SubSeq(done, 1, Len(done) - 1), Tail(rest))
    ELSE Clean(Append(done, rest[1]), Tail(rest))

\* filepath.Abs(path) in working directory wd: an absolute path as the
\* sequence of its elements
Abs(wd, path) ==
    IF path # <<>> /\ path[1] = "/" THEN Clean(<<>>, Split(path, "/"))
    ELSE Clean(wd, Split(path, "/"))

\* the directories of the disk, each with the family of files it holds
HomeDir == <<<<"h", "o", "m", "e">>>>
LegacyDir == <<<<"h", "o", "m", "e">>, <<"l", "e", "g", "a", "c", "y">>>>
ShellDirs == {HomeDir, StartDir, LegacyDir}

DirFamily(dir) == IF dir = StartDir THEN 1 ELSE IF dir = LegacyDir THEN 2 ELSE 0

ReportPath == StartDir \o <<<<"r", "e", "p", "o", "r", "t", ".", "t", "x", "t">>>>
OldReport == <<[kind |-> "old"]>>

\* what a session may find on disk: no report, or the report of an earlier session
InitialReports == {NoReports, [path \in {ReportPath} |-> OldReport]}

\* stand-in for the number of bytes of a report line
LineBytes == 81

Parent(path) == SubSeq(path, 1, Len(path) - 1)

\* the regular files below a directory in the order of the walk: the files of
\* its family, then the report files (report.txt sorts behind the files of the
\* family of StartDir, the one directory a session writes reports to)
RECURSIVE FamilyFiles(_, _, _)
FamilyFiles(dir, p, i) ==
    IF p = 0 \/ i > Len(Families[p].items) THEN <<>>
    ELSE <<FileInfo(Families[p].items[i].Name, dir \o <<Families[p].items[i].Name>>,
                    Families[p].items[i].Size)>>
         \o FamilyFiles(dir, p, i + 1)

ReportFiles(dir, reps) ==
    IF (dir \o <<<<"r", "e", "p", "o", "r", "t", ".", "t", "x", "t">>>>) \in DOMAIN reps
    THEN <<FileInfo(<<"r", "e", "p", "o", "r", "t", ".", "t", "x", "t">>, dir \o <<<<"r", "e", "p", "o", "r", "t", ".", "t", "x", "t">>>>,
                    LineBytes * Len(reps[dir \o <<<<"r", "e", "p", "o", "r", "t", ".", "t", "x", "t">>>>]))>>
    ELSE <<>>

LeafFiles(dir, reps) == FamilyFiles(dir, DirFamily(dir), 1) \o ReportFiles(dir, reps)

FilesBelow(dir, reps) ==
    IF dir \in {StartDir, LegacyDir} THEN LeafFiles(dir, reps)
    ELSE LeafFiles(LegacyDir, reps) \o LeafFiles(StartDir, reps)

\* os.Stat(path) does not fail with "not exist"
Exists(path, reps) == path \in ShellDirs \/ path \in DOMAIN reps

\* scout.Run(target) on the disk: the summary of the files below target; every
\* file of the disk can be read
RunOn(target, reps) ==
    LET files == IF target \in ShellDirs THEN FilesBelow(target, reps)
                 ELSE <<FileInfo(target[Len(target)], target, LineBytes * Len(reps[target]))>>
    IN  [Directory |-> target, FileCount |-> Len(files),
         Subdirectories |-> IF target = HomeDir THEN <<LegacyDir, StartDir>> ELSE <<>>,
         Files |-> [i \in 1..Len(files) |-> FileSummary(files[i], TRUE)]]

-----------------------------------------------------------------------------
(* internal/summarize/summarize.go                                         *)

\* what the generation backend does in one call of Summarize
Backends == {"ok", "libUnset", "modelMissing", "tooLarge", "decodePrompt", "decodeGenerate"}

\* Summarize(prompt): the returned text and error.  A decode failure in the
\* generation loop ends the loop; the pieces written so far are returned.
Summarize(prompt, backend) ==
    CASE backend = "libUnset" -> [text |-> None, err |-> "YZMA_LIB environment variable not set"]
      [] backend = "modelMissing" -> [text |-> None, err |-> "model file not found"]
      [] backend = "tooLarge" -> [text |-> None, err |-> "prompt is too large"]
      [] backend = "decodePrompt" -> [text |-> None, err |-> "llama decode failed on prompt chunk"]
      [] backend = "decodeGenerate" -> [text |-> "partial", err |-> None]
      [] OTHER -> [text |-> "complete", err |-> None]

-----------------------------------------------------------------------------
(* internal/shell/scout.go                                                 *)

Redirections == {<<">">>, <<">", ">">>}

NoFile == [open |-> FALSE, path |-> <<>>]

\* os.OpenFile(name, O_CREATE|O_WRONLY|O_APPEND or O_TRUNC): the file is
\* created or, without O_APPEND, emptied
OpenFile(wd, reps, name, isAppend) ==
    LET path == Abs(wd, name)
    IN  IF path = <<>> \/ path \in ShellDirs \/ Parent(path) \notin ShellDirs
        THEN [file |-> NoFile, reports |-> reps, err |-> "failed to open file"]
        ELSE [file |-> [open |-> TRUE, path |-> path],
              reports |-> IF isAppend /\ path \in DOMAIN reps THEN reps
                          ELSE [q \in DOMAIN reps \cup {path} |->
                                   IF q = path THEN <<>> ELSE reps[q]],
              err |-> None]

setupRedirection(args, wd, reps) ==
    LET found == {i \in 1..Len(args) : args[i] \in Redirections}
    IN  IF found = {}
        THEN [cleanArgs |-> args, file |-> NoFile, reports |-> reps, screen |-> <<>>, err |-> None]
        ELSE
        LET redirectIndex == CHOOSE i \in found : \A j \in found : i <= j
            isAppend == args[redirectIndex] = <<">", ">">>
            outputFileName == IF redirectIndex + 1 <= Len(args) THEN args[redirectIndex + 1]
                              ELSE <<>>
        IN  IF outputFileName = <<>>
            THEN [cleanArgs |-> args, file |-> NoFile, reports |-> reps, screen |-> <<>>,
                  err |-> "no output file specified"]
            ELSE
            LET opened == OpenFile(wd, reps, outputFileName, isAppend)
            IN  IF opened.err # None
                THEN [cleanArgs |-> args, file |-> NoFile, reports |-> reps, screen |-> <<>>,
                      err |-> opened.err]
                ELSE [cleanArgs |-> SubSeq(args, 1, redirectIndex - 1), file |-> opened.file,
                      reports |-> opened.reports,
                      screen |-> <<[kind |-> "saving", name |-> outputFileName]>>,
                      err |-> None]

\* fmt.Fprintf(writer, ...): to the redirect target when there is one, else to the screen
Fprint(out, file, line) ==
    IF file.open
    THEN [out EXCEPT !.reports = [@ EXCEPT ![file.path] = Append(@, line)]]
    ELSE [out EXCEPT !.screen = Append(@, line)]

\* fmt.Printf(...)
Printf(out, line) == [out EXCEPT !.screen = Append(@, line)]

\* the element of a set of one element
The(S) == CHOOSE x \in S : TRUE

\* summary, insight := scout.Run(targetDir)
ScoutRun(targetDir, reps, year) ==
    The({[sum |-> s, ins |-> AnalyzeDirectory(s.Files, year)] : s \in {RunOn(targetDir, reps)}})

\* HandleScout from the call of scout.Run on: the lines about the scan, the
\* call of the summarizer and the lines of its answer
Report(start, file, targetDir, run, backend) ==
    LET scouting == [kind |-> "scouting", dir |-> targetDir]
        o1 == IF file.open THEN Printf(start, scouting) ELSE Fprint(start, file, scouting)
        o2 == Fprint(o1, file, [kind |-> "found", count |-> run.sum.FileCount,
                                confidence |-> run.ins.Confidence, domain |-> run.ins.Domain])
        o3 == Printf(o2, [kind |-> "generating"])
        fullPrompt == GeneratePrompt(run.ins, run.sum)
        ai == Summarize(fullPrompt, backend)
        o4 == [o3 EXCEPT !.summary = run.sum, !.insight = run.ins, !.payload = fullPrompt,
                         !.scanned = {targetDir}, !.calls = 1, !.backend = backend]
    IN  IF ai.err # None
        THEN [o4 EXCEPT !.err = "summarizer error"]
        ELSE
        LET o5 == Fprint(o4, file, [kind |-> "separator"])
            o6 == Fprint(o5, file, [kind |-> "ai", text |-> ai.text])
            o7 == Fprint(o6, file, [kind |-> "separator"])
            o8 == IF file.open THEN Printf(o7, [kind |-> "done"]) ELSE o7
        IN  [o8 EXCEPT !.text = ai.text]

\* HandleScout(args, os.Stdout) in working directory wd
HandleScout(args, wd, reps, backend, year) ==
    LET redir == The({setupRedirection(args, wd, reps)})
        start == [reports |-> redir.reports, screen |-> redir.screen, err |-> redir.err,
                  summary |-> NoSummary, insight |-> NoInsight, payload |-> NoPayload,
                  scanned |-> {}, calls |-> 0, backend |-> None, text |-> None]
    IN  IF redir.err # None THEN start
        ELSE
        LET rawPath == IF Len(redir.cleanArgs) > 1 THEN Trim(redir.cleanArgs[2], {"\"", "'"})
                       ELSE <<".">>
            targetDir == Abs(wd, rawPath)
        IN  IF ~Exists(targetDir, redir.reports)
            THEN [start EXCEPT !.err = "directory does not exist"]
            ELSE The({Report(start, redir.file, targetDir, run, backend) :
                         run \in {ScoutRun(targetDir, redir.reports, year)}})

-----------------------------------------------------------------------------
(* internal/shell/shell.go, commands.go, external.go                       *)

\* the lines entered at the prompt
InputLines ==
    {<<>>, <<"e", "x", "i", "t">>, <<"p", "w", "d">>, <<" ", "l", "s">>, <<"c", "d", " ", ".", ".", "/", "l", "e", "g", "a", "c", "y">>, <<"g", "i", "t", " ", "s", "t", "a", "t", "u", "s">>,
     <<"s", "c">>, <<"s", "c", " ", ".", ".", "/", "l", "e", "g", "a", "c", "y">>, <<"s", "c", "o", "u", "t", " ", "'", ".", ".", "/", "l", "e", "g", "a", "c", "y", "'", " ", ">", ">", " ", "r", "e", "p", "o", "r", "t", ".", "t", "x", "t">>, <<"s", "c", " ", "n", "o", "w", "h", "e", "r", "e">>,
     <<"s", "c", " ", ">", " ", "r", "e", "p", "o", "r", "t", ".", "t", "x", "t">>, <<"s", "c", " ", ">", ">", " ", "r", "e", "p", "o", "r", "t", ".", "t", "x", "t">>, <<"s", "c", " ", "n", "o", "w", "h", "e", "r", "e", " ", ">", " ", "r", "e", "p", "o", "r", "t", ".", "t", "x", "t">>,
     <<"s", "c", " ", ">">>, <<"s", "c", " ", ">", " ", "n", "o", "d", "i", "r", "/", "r", "e", "p", "o", "r", "t", ".", "t", "x", "t">>}

Builtins == {<<"e", "x", "i", "t">>, <<"p", "w", "d">>, <<"l", "s">>, <<"s", "c", "o", "u", "t">>, <<"s", "c">>}

\* args of the loop of Start for a line
ArgsOf(line) == Split(TrimSpace(line), " ")

\* the shell has taken a line and is back at the prompt (or has exited)
Handled(handler, line, screen, out) ==
    /\ last' = [handler |-> handler, line |-> line, args |-> ArgsOf(line), before |-> cwd,
                reportsBefore |-> reports, screen |-> screen, err |-> out.err,
                scanned |-> out.scanned, calls |-> out.calls, backend |-> out.backend,
                text |-> out.text]
    /\ entered' = entered + 1

NoOutcome == [err |-> None, scanned |-> {}, calls |-> 0, backend |-> None, text |-> None]

\* the names os.ReadDir returns for a directory, in order
RECURSIVE NamesOf(_, _)
NamesOf(files, i) == IF i > Len(files) THEN <<>> ELSE <<files[i].Name>> \o NamesOf(files, i + 1)

ReadDir(dir, reps) ==
    IF dir = HomeDir THEN <<<<"l", "e", "g", "a", "c", "y">>, <<"p", "r", "o", "j">>>> ELSE NamesOf(LeafFiles(dir, reps), 1)

RECURSIVE Listed(_, _)
Listed(names, i) ==
    IF i > Len(names) THEN <<>>
    ELSE (IF HasPrefix(names[i], <<".">>) THEN <<>> ELSE <<[kind |-> "name", name |-> names[i]]>>)
         \o Listed(names, i + 1)

\* Start reads a line that is empty once trimmed
EmptyLine ==
    /\ pc = "prompt"
    /\ entered < MaxCommands
    /\ \E line \in InputLines :
          /\ TrimSpace(line) = <<>>
          /\ Handled("none", line, <<>>, NoOutcome)
    /\ UNCHANGED <<pc, pool, summary, insight, prev, currentYear, root, todo, scan, scanErr, idx,
                   runResult, important, dispatch, payload, unreadable, cwd, reports>>

\* runBuiltin, case "exit"
Exit ==
    /\ pc = "prompt"
    /\ entered < MaxCommands
    /\ \E line \in InputLines :
          /\ TrimSpace(line) # <<>>
          /\ ArgsOf(line)[1] = <<"e", "x", "i", "t">>
          /\ Handled("exit", line, <<[kind |-> "bye"]>>, NoOutcome)
    /\ pc' = "exited"
    /\ UNCHANGED <<pool, summary, insight, prev, currentYear, root, todo, scan, scanErr, idx,
                   runResult, important, dispatch, payload, unreadable, cwd, reports>>

\* runBuiltin, case "pwd"
Pwd ==
    /\ pc = "prompt"
    /\ entered < MaxCommands
    /\ \E line \in InputLines :
          /\ TrimSpace(line) # <<>>
          /\ ArgsOf(line)[1] = <<"p", "w", "d">>
          /\ Handled("pwd", line, <<[kind |-> "path", dir |-> cwd]>>, NoOutcome)
    /\ UNCHANGED <<pc, pool, summary, insight, prev, currentYear, root, todo, scan, scanErr, idx,
                   runResult, important, dispatch, payload, unreadable, cwd, reports>>

\* runBuiltin, case "ls"
Ls ==
    /\ pc = "prompt"
    /\ entered < MaxCommands
    /\ \E line \in InputLines :
          /\ TrimSpace(line) # <<>>
          /\ ArgsOf(line)[1] = <<"l", "s">>
          /\ Handled("ls", line, Listed(ReadDir(cwd, reports), 1), NoOutcome)
    /\ UNCHANGED <<pc, pool, summary, insight, prev, currentYear, root, todo, scan, scanErr, idx,
                   runResult, important, dispatch, payload, unreadable, cwd, reports>>

\* runBuiltin, case "scout", "sc": HandleScout and the report of its error
Sc ==
    /\ pc = "prompt"
    /\ entered < MaxCommands
    /\ \E line \in InputLines, backend \in Backends :
          /\ TrimSpace(line) # <<>>
          /\ ArgsOf(line)[1] \in {<<"s", "c", "o", "u", "t">>, <<"s", "c">>}
          /\ \E out \in {HandleScout(ArgsOf(line), cwd, reports, backend, currentYear)} :
                 /\ Handled("sc", line,
                            IF out.err # None
                            THEN Append(out.screen, [kind |-> "error", err |-> out.err])
                            ELSE out.screen,
                            out)
                 /\ reports' = out.reports
                 /\ summary' = out.summary
                 /\ insight' = out.insight
                 /\ payload' = out.payload
    /\ unreadable' = {}
    /\ UNCHANGED <<pc, pool, prev, currentYear, root, todo, scan, scanErr, idx,
                   runResult, important, dispatch, cwd>>

\* runExternal: the command runs as a child process with the terminal of the
\* shell; nothing of the shell process changes, its working directory included
External ==
    /\ pc = "prompt"
    /\ entered < MaxCommands
    /\ \E line \in InputLines :
          /\ TrimSpace(line) # <<>>
          /\ ArgsOf(line)[1] \notin Builtins
          /\ Handled("external", line, <<[kind |-> "child"]>>, NoOutcome)
    /\ UNCHANGED <<pc, pool, summary, insight, prev, currentYear, root, todo, scan, scanErr, idx,
                   runResult, important, dispatch, payload, unreadable, cwd, reports>>

InitShell ==
    /\ pc = "prompt"
    /\ pool = 1
    /\ summary = NoSummary
    /\ insight = NoInsight
    /\ prev = NoPrev
    /\ currentYear = 2026
    /\ root = NoRoot
    /\ todo = <<>>
    /\ scan = NoScan
    /\ scanErr = "pending"
    /\ idx = 1
    /\ runResult = "pending"
    /\ important = NoImportant
    /\ dispatch = NoDispatch
    /\ payload = NoPayload
    /\ unreadable = {}
    /\ cwd = StartDir
    /\ reports \in InitialReports
    /\ last = NoCommand
    /\ entered = 0

NextShell == EmptyLine \/ Exit \/ Pwd \/ Ls \/ Sc \/ External

SpecShell == InitShell /\ [][NextShell]_vars


-----------------------------------------------------------------------------
(* Properties                                                              *)

\* AnalyzeDirectory has returned
Analyzed == pc = "done" /\ runResult = "summary"

Count(c) == Get(insight.FilesByCategory, c)

Total == SumOver(insight.FilesByCategory, DOMAIN insight.FilesByCategory)

FileIndexes == 1..Len(summary.Files)

LowerName(i) == ToLower(summary.Files[i].Name)

\* the project-marker names, lowercased
MarkerNames ==
    {<<"p", "a", "c", "k", "a", "g", "e", ".", "j", "s", "o", "n">>, <<"p", "u", "b", "s", "p", "e", "c", ".", "y", "a", "m", "l">>, <<"g", "o", ".", "m", "o", "d">>, <<"c", "a", "r", "g", "o", ".", "t", "o", "m", "l">>, <<"r", "e", "q", "u", "i", "r", "e", "m", "e", "n", "t", "s", ".", "t", "x", "t">>,
     <<"p", "o", "m", ".", "x", "m", "l">>, <<"b", "u", "i", "l", "d", ".", "g", "r", "a", "d", "l", "e">>, <<"g", "e", "m", "f", "i", "l", "e">>, <<"c", "o", "m", "p", "o", "s", "e", "r", ".", "j", "s", "o", "n">>}

HasMarker == \E i \in FileIndexes : LowerName(i) \in MarkerNames

\* the number of distinct files whose name contains one of the keywords
FilesWithKeyword(keywords) ==
    Cardinality({i \in FileIndexes :
                    \E k \in 1..Len(keywords) : Contains(LowerName(i), keywords[k])})

SoftwareRule == HasMarker \/ 10 * (Count("code") + Count("config")) > 3 * Total

DocumentRule == 10 * (Count("pdf") + Count("word") + Count("text")) > 5 * Total

MediaRule == 10 * (Count("image") + Count("video") + Count("audio")) > 7 * Total

SpreadsheetRule == 10 * Count("spreadsheet") > 4 * Total

\* C1: on a non-empty histogram the domain is software exactly when a file name
\* is a project marker (compared case-insensitively) or code+config is strictly
\* more than 0.3 of the total, whatever the document, media and spreadsheet shares.
C1_SoftwareIffMarkerOrCode ==
    (Analyzed /\ Total > 0) => (insight.Domain = DomainSoftwareProject <=> SoftwareRule)

\* a code share of exactly 0.3 with no marker, next to a media share of 0.7
C1_Witness ==
    /\ Analyzed /\ Total > 0
    /\ ~HasMarker
    /\ 10 * (Count("code") + Count("config")) = 3 * Total
    /\ insight.Domain # DomainSoftwareProject

\* C2: when the software rule does not apply and the document share is strictly
\* above 0.5, the domain is study with at least 3 files named with a study keyword,
\* otherwise financial with at least 2 files named with a financial keyword,
\* otherwise documents; a file counts once however many keywords it contains.
C2_DocumentBranch ==
    (Analyzed /\ Total > 0 /\ ~SoftwareRule /\ DocumentRule) =>
        insight.Domain = IF FilesWithKeyword(studyKeywords) >= 3 THEN DomainStudyMaterials
                         ELSE IF FilesWithKeyword(financialKeywords) >= 2 THEN DomainFinancial
                         ELSE DomainDocuments

\* two files, one of them with two study keywords in its name, and a financial pair
C2_Witness ==
    /\ Analyzed /\ ~SoftwareRule /\ DocumentRule
    /\ FilesWithKeyword(studyKeywords) = 2
    /\ \E i \in FileIndexes :
          Contains(LowerName(i), <<"l", "e", "c", "t", "u", "r", "e">>) /\ Contains(LowerName(i), <<"n", "o", "t", "e", "s">>)
    /\ FilesWithKeyword(financialKeywords) >= 2
    /\ insight.Domain = DomainFinancial

\* C3: when neither the software nor the document rule applies and the media share
\* is strictly above 0.7, the domain is creative if images outnumber video plus
\* audio and at least 2 files are named with a creative keyword, media otherwise.
C3_MediaBranch ==
    (Analyzed /\ Total > 0 /\ ~SoftwareRule /\ ~DocumentRule /\ MediaRule) =>
        insight.Domain = IF /\ Count("image") > Count("video") + Count("audio")
                            /\ FilesWithKeyword(creativeKeywords) >= 2
                         THEN DomainCreative
                         ELSE DomainMedia

\* a media directory with a single creatively named file and an image majority
C3_Witness ==
    /\ Analyzed /\ ~SoftwareRule /\ ~DocumentRule /\ MediaRule
    /\ Count("image") > Count("video") + Count("audio")
    /\ FilesWithKeyword(creativeKeywords) = 1
    /\ insight.Domain = DomainMedia

\* the five files of unrelated types: .zip, .exe, .log, .bak, .dat
UnrelatedFive ==
    /\ Len(summary.Files) = 5
    /\ \A e \in {<<".", "z", "i", "p">>, <<".", "e", "x", "e">>, <<".", "l", "o", "g">>, <<".", "b", "a", "k">>, <<".", "d", "a", "t">>} :
          \E i \in FileIndexes : summary.Files[i].Extension = e

\* keys are names of n files, largest first, and no other file is larger
LargestFiles(keys, n) ==
    /\ Len(keys) = n
    /\ \E pos \in [1..n -> FileIndexes] :
          /\ \A a, b \in 1..n : a # b => pos[a] # pos[b]
          /\ \A a \in 1..n : summary.Files[pos[a]].Name = keys[a]
          /\ \A a \in 1..(n - 1) : summary.Files[pos[a]].Size >= summary.Files[pos[a + 1]].Size
          /\ \A i \in FileIndexes :
                (\A a \in 1..n : pos[a] # i) =>
                    summary.Files[i].Size <= summary.Files[pos[n]].Size

\* C4: when the software, document and media rules all fail, the domain is
\* financial if the spreadsheet share is strictly above 0.4 and mixed otherwise;
\* the five files .zip, .exe, .log, .bak, .dat are mixed, with the 3 largest as key files.
C4_SpreadsheetOrMixed ==
    /\ (Analyzed /\ Total > 0 /\ ~SoftwareRule /\ ~DocumentRule /\ ~MediaRule) =>
          insight.Domain = IF SpreadsheetRule THEN DomainFinancial ELSE DomainMixed
    /\ (Analyzed /\ UnrelatedFive) =>
          insight.Domain = DomainMixed /\ LargestFiles(insight.KeyFiles, 3)

\* the five unrelated files, analyzed
C4_Witness == Analyzed /\ UnrelatedFive /\ insight.Domain = DomainMixed

DomainLabels ==
    {DomainSoftwareProject, DomainDocuments, DomainMedia, DomainStudyMaterials,
     DomainFinancial, DomainCreative, DomainMixed, DomainEmpty}

\* C5: classification is total: the domain is always one of the eight labels, it is
\* empty exactly when the histogram total is 0, and an empty directory gives
\* domain empty, confidence 0 and an empty histogram.
C5_TotalClassification ==
    Analyzed =>
        /\ insight.Domain \in DomainLabels
        /\ insight.Domain = DomainEmpty <=> Total = 0
        /\ Len(summary.Files) = 0 =>
              /\ insight.Domain = DomainEmpty
              /\ insight.Confidence = <<0, 1>>
              /\ DOMAIN insight.FilesByCategory = {}

\* an empty directory, analyzed
C5_Witness == Analyzed /\ Len(summary.Files) = 0 /\ insight.Domain = DomainEmpty

\* C6: the values of the histogram built by categorizeFiles sum to the number of
\* file summaries.
C6_HistogramSum == Analyzed => Total = Len(summary.Files)

\* a histogram with three categories
C6_Witness ==
    /\ Analyzed
    /\ Cardinality(DOMAIN insight.FilesByCategory) >= 3
    /\ Len(summary.Files) >= 4

\* C7: the confidence is the largest category count divided by the total (0 when
\* the total is 0) whatever the domain; it lies in [0,1] and is 0 exactly when the
\* histogram is empty.
C7_Confidence ==
    Analyzed =>
        LET conf == insight.Confidence
            counts == {insight.FilesByCategory[c] : c \in DOMAIN insight.FilesByCategory}
        IN  /\ conf[2] > 0 /\ 0 <= conf[1] /\ conf[1] <= conf[2]
            /\ conf[1] = 0 <=> DOMAIN insight.FilesByCategory = {}
            /\ Total = 0 => conf[1] = 0
            /\ Total > 0 =>
                  \E m \in counts :
                      /\ \A n \in counts : n <= m
                      /\ conf[1] * Total = m * conf[2]

\* a confidence strictly between 0 and 1 on a directory that is not mixed
C7_Witness ==
    /\ Analyzed
    /\ insight.Confidence = <<2, 5>>
    /\ insight.Domain = DomainSoftwareProject

\* the two summaries list the same names and extensions
SameNames(a, b) ==
    /\ Len(a) = Len(b)
    /\ \A i \in 1..Len(a) : a[i].Name = b[i].Name /\ a[i].Extension = b[i].Extension

\* C8: two invocations on the same file name/extension list give the same domain and
\* confidence, whatever the file sizes, the year and the earlier invocation were.
C8_Deterministic ==
    (Analyzed /\ prev.used /\ SameNames(prev.summary.Files, summary.Files)) =>
        /\ insight.Domain = prev.insight.Domain
        /\ insight.Confidence = prev.insight.Confidence

\* a second invocation, in another year, on the same names with other sizes
C8_Witness ==
    /\ Analyzed /\ prev.used
    /\ SameNames(prev.summary.Files, summary.Files)
    /\ Len(summary.Files) = 3
    /\ \A i \in FileIndexes : summary.Files[i].Size # prev.summary.Files[i].Size
    /\ currentYear # prev.year
    /\ insight.Domain = DomainStudyMaterials

CountFiles(P(_)) == Cardinality({i \in FileIndexes : P(summary.Files[i])})

\* 10 files: four .go, one go.mod, three .md, two .png
ScenarioSoftware ==
    LET isGo(f) == f.Extension = <<".", "g", "o">>
        isGoMod(f) == f.Name = <<"g", "o", ".", "m", "o", "d">>
        isMd(f) == f.Extension = <<".", "m", "d">>
        isPng(f) == f.Extension = <<".", "p", "n", "g">>
    IN  /\ Len(summary.Files) = 10
        /\ CountFiles(isGo) = 4 /\ CountFiles(isGoMod) = 1
        /\ CountFiles(isMd) = 3 /\ CountFiles(isPng) = 2

\* C9 as stated: the scenario has a code+config fraction of 0.5, a marker file,
\* and the domain software.
C9_Original ==
    (Analyzed /\ ScenarioSoftware) =>
        /\ 2 * (Count("code") + Count("config")) = Total
        /\ HasMarker
        /\ insight.Domain = DomainSoftwareProject

\* C9 amended: the scenario has a code+config fraction of 0.4 (go.mod is counted
\* under other, not under config), a marker file, and the domain software.
C9_ScenarioSoftware ==
    (Analyzed /\ ScenarioSoftware) =>
        /\ 10 * (Count("code") + Count("config")) = 4 * Total
        /\ Count("other") = 1
        /\ HasMarker
        /\ insight.Domain = DomainSoftwareProject

\* the scenario, analyzed
C9_Witness == Analyzed /\ ScenarioSoftware /\ insight.Domain = DomainSoftwareProject

\* the root path does not exist, or is a directory that cannot be read
RootUnreadable == ~root.exists \/ (root.isDir /\ ~root.readable)

\* ScanDirectory has returned
Scanned == scanErr # "pending"

\* C10: ScanDirectory returns an error exactly when the root path cannot be opened
\* or read, and then Run returns an error and no DirectorySummary.
C10_ScanFailsOnRoot ==
    Scanned =>
        /\ scanErr # "nil" <=> RootUnreadable
        /\ RootUnreadable => runResult = "error" /\ summary = NoSummary

-----------------------------------------------------------------------------
(* Properties of the scan and of the loop of Run                           *)

\* the files of a listing that a walk can reach and that are not hidden: the
\* entries whose name has no leading dot, and below the directories among them
\* those of every listing that can be read
RECURSIVE VisibleFiles(_, _, _)
VisibleFiles(entries, i, path) ==
    IF i > Len(entries) THEN <<>>
    ELSE LET e == entries[i]
             here == IF HasPrefix(e.name, <<".">>) THEN <<>>
                     ELSE IF e.isDir
                          THEN IF e.readable
                               THEN VisibleFiles(e.children, 1, path \o <<e.name>>)
                               ELSE <<>>
                     ELSE <<[path |-> path \o <<e.name>>, name |-> e.name, size |-> e.size,
                             statOK |-> e.statOK]>>
         IN  here \o VisibleFiles(entries, i + 1, path)

\* the visible files of the tree below the root directory
TreeFiles ==
    IF root.exists /\ root.isDir /\ root.readable
    THEN VisibleFiles(root.children, 1, RootPath(root))
    ELSE <<>>

\* the positions of the scan result that describe the entry at a path
Descriptors(path) == {i \in 1..Len(scan.Files) : scan.Files[i].Path = path}

\* C11: for a root directory of any base name, ScanDirectory returns exactly one
\* file descriptor for every visible file of the tree (no leading dot, not below
\* a dot-prefixed subdirectory), with its lowercased extension and its size.
C11_OneDescriptorPerVisibleFile ==
    (Scanned /\ scanErr = "nil" /\ root.exists /\ root.isDir) =>
        /\ Len(scan.Files) = Len(TreeFiles)
        /\ \A k \in 1..Len(TreeFiles) :
              /\ Cardinality(Descriptors(TreeFiles[k].path)) = 1
              /\ \A i \in Descriptors(TreeFiles[k].path) :
                    /\ scan.Files[i].Name = TreeFiles[k].name
                    /\ scan.Files[i].FileExt = ToLower(Ext(TreeFiles[k].name))
                    /\ scan.Files[i].Size = TreeFiles[k].size

\* a path with a component that starts with a dot
HiddenPath(path) == \E k \in 1..Len(path) : HasPrefix(path[k], <<".">>)

\* the path of the directory that holds the entry at a path
Dir(path) == SubSeq(path, 1, Len(path) - 1)

\* the root directory holds the entry of a name
RootHolds(name) == \E k \in 1..Len(root.children) : root.children[k].name = name

\* C12: in every state of the walk, the scan result holds no file and no
\* subdirectory with a leading dot in its name or below a dot-prefixed directory,
\* and the walk never enters a dot-prefixed directory.
C12_NoHiddenEntry ==
    /\ \A i \in 1..Len(scan.Files) :
          ~HiddenPath(scan.Files[i].Path) /\ ~HasPrefix(scan.Files[i].Name, <<".">>)
    /\ \A i \in 1..Len(scan.Subdirectories) : ~HiddenPath(scan.Subdirectories[i])
    /\ \A i \in 1..Len(todo) : ~HiddenPath(Dir(todo[i].path))

\* a tree with a hidden file, a hidden directory and a hidden file in a
\* subdirectory has been walked and visible files of it are in the result
C12_Witness ==
    /\ Scanned
    /\ RootHolds(<<".", "e", "n", "v">>) /\ RootHolds(<<".", "g", "i", "t">>) /\ RootHolds(<<"s", "u", "b">>)
    /\ Len(scan.Files) >= 2
    /\ Len(scan.Subdirectories) >= 1

\* the root is a directory without a leading dot in its name
PlainRoot == root.exists /\ root.isDir /\ ~HasPrefix(root.name, <<".">>)

\* C13: when the size of a visible file cannot be read, the scan does not abort
\* and the file is recorded with size 0.
C13_StatFailureKeepsFile ==
    PlainRoot =>
        /\ pc # "panic"
        /\ Scanned =>
              \A k \in 1..Len(TreeFiles) :
                  ~TreeFiles[k].statOK =>
                      \E i \in Descriptors(TreeFiles[k].path) : scan.Files[i].Size = 0

\* an entry of the root directory fails: a subdirectory that cannot be read, or
\* a file whose stat fails
UnreadableSubdirectory ==
    \E k \in 1..Len(root.children) : root.children[k].isDir /\ ~root.children[k].readable

StatFailure == \E k \in 1..Len(root.children) : ~root.children[k].statOK

\* the files of the tree that the error of another entry leaves reachable
Recorded(k) == Descriptors(TreeFiles[k].path) # {}

\* C14: an I/O error on an entry below the root affects that entry only: the
\* walk goes on, every other reachable visible file is recorded, and
\* ScanDirectory returns without error.
C14_EntryErrorIsLocal ==
    (PlainRoot /\ root.readable /\ (UnreadableSubdirectory \/ StatFailure)) =>
        /\ pc # "panic"
        /\ Scanned =>
              /\ scanErr = "nil"
              /\ \A k \in 1..Len(TreeFiles) : TreeFiles[k].statOK => Recorded(k)

\* the category that the extractor of an extension gives to a file it can read
CategoryOfExtension(ext) == Extract(DetectCategory(ext), TRUE).Category

\* the summary at position i is the one of the scanned file at position i: kept
\* with category unknown and no metadata when its extraction failed, with the
\* category of its extractor and metadata otherwise
SummaryOf(i) ==
    LET s == summary.Files[i]
        f == scan.Files[i]
    IN  /\ s.Name = f.Name /\ s.Extension = f.FileExt /\ s.Size = f.Size
        /\ \/ s.Type = "unknown" /\ ~s.Metadata
           \/ s.Type = CategoryOfExtension(f.FileExt) /\ s.Metadata

\* C15: Run builds one FileSummary per scanned file descriptor, in the order of
\* the scanner; a file whose extractor fails is kept as unknown without metadata,
\* the files after it are still extracted, and Run returns no error.
C15_OneSummaryPerFile ==
    (Scanned /\ pc \in {"extract", "done"}) =>
        /\ runResult # "error"
        /\ Len(summary.Files) = idx - 1
        /\ \A i \in 1..Len(summary.Files) : SummaryOf(i)
        /\ runResult = "summary" => Len(summary.Files) = Len(scan.Files)

\* Run has returned a summary in which a file whose extraction failed is followed
\* by a file that was extracted
C15_Witness ==
    /\ runResult = "summary"
    /\ \E i, j \in 1..Len(summary.Files) :
          /\ i < j
          /\ summary.Files[i].Type = "unknown" /\ ~summary.Files[i].Metadata
          /\ summary.Files[j].Type # "unknown" /\ summary.Files[j].Metadata

-----------------------------------------------------------------------------
(* Properties of the key files                                             *)

\* the names of the files of the summary
FileNames == {summary.Files[i].Name : i \in 1..Len(summary.Files)}

\* every key file is the name of a file of the summary
KeyFilesAreFiles == \A k \in 1..Len(insight.KeyFiles) : insight.KeyFiles[k] \in FileNames

\* the summary has an entry point or a README of a software project
HasEntryPointOrReadme ==
    \E i \in 1..Len(summary.Files) :
        LowerName(i) \in {<<"m", "a", "i", "n", ".", "d", "a", "r", "t">>, <<"m", "a", "i", "n", ".", "g", "o">>, <<"i", "n", "d", "e", "x", ".", "j", "s">>, <<"i", "n", "d", "e", "x", ".", "h", "t", "m", "l">>,
                          <<"a", "p", "p", ".", "p", "y">>, <<"m", "a", "i", "n", ".", "p", "y">>, <<"r", "e", "a", "d", "m", "e", ".", "m", "d">>}

\* C16 as stated: after AnalyzeDirectory, for every domain, every name in
\* KeyFiles is the name of a file of the summary.
C16_Original == Analyzed => KeyFilesAreFiles

\* C16 amended: after AnalyzeDirectory every name in KeyFiles is the name of a
\* file of the summary, except for a software project without entry point and
\* README, whose KeyFiles is the single hint to look in src/ or lib/.
C16_KeyFilesAreFilesOrHint ==
    Analyzed =>
        IF insight.Domain = DomainSoftwareProject /\ ~HasEntryPointOrReadme
        THEN insight.KeyFiles = <<srcPlaceholder>>
        ELSE KeyFilesAreFiles

\* a software project analyzed with its README and its entry point as key files
C16_Witness ==
    /\ Analyzed
    /\ insight.Domain = DomainSoftwareProject
    /\ Len(insight.KeyFiles) >= 2
    /\ KeyFilesAreFiles

\* position i goes before position j in a stable descending order of the keys
Before(keys, i, j) == keys[i] > keys[j] \/ (keys[i] = keys[j] /\ i < j)

\* the positions of the first n keys in the stable descending order
StableFirst(keys, n) ==
    [k \in 1..Min(n, Len(keys)) |->
        CHOOSE i \in 1..Len(keys) :
            Cardinality({j \in 1..Len(keys) : Before(keys, j, i)}) = k - 1]

Sizes == [i \in 1..Len(summary.Files) |-> summary.Files[i].Size]

\* C17: on the mixed path, KeyFiles is the min(3, number of files) largest files
\* in descending order of size, files of equal size in the order of the list,
\* for a list of any length.
C17_MixedKeyFiles ==
    (Analyzed /\ insight.Domain = DomainMixed) =>
        LET first == StableFirst(Sizes, 3)
        IN  insight.KeyFiles = [k \in 1..Len(first) |-> summary.Files[first[k]].Name]

\* the candidates of findImportantDocs with their scores, in the order of the list
DocCandidates ==
    LET docs == scoreDocs(summary.Files, 1, currentYear)
    IN  IF Len(docs) = 0 THEN largeFiles(summary.Files, 1) ELSE docs

\* C18: for every file list and every limit, findImportantDocs returns at most
\* limit names, in descending order of score, candidates of equal score in the
\* order of the list.
C18_ImportantDocsStable ==
    important.called =>
        LET keys == [i \in 1..Len(DocCandidates) |-> DocCandidates[i].key]
            first == StableFirst(keys, important.limit)
        IN  /\ Len(important.names) <= (IF important.limit < 0 THEN 0 ELSE important.limit)
            /\ important.names = [k \in 1..Len(first) |-> DocCandidates[first[k]].name]

-----------------------------------------------------------------------------
(* Properties of the dispatch and of the categories                        *)

\* the rows of the dispatch table, in order
DispatchRows ==
    <<[exts |-> {<<".", "g", "o">>, <<".", "d", "a", "r", "t">>, <<".", "j", "s">>, <<".", "t", "s">>, <<".", "p", "y">>, <<".", "j", "a", "v", "a">>, <<".", "r", "b">>,
                 <<".", "r", "s">>, <<".", "c">>, <<".", "c", "p", "p">>}, extractor |-> "CodeExtractor"],
      [exts |-> {<<".", "p", "d", "f">>}, extractor |-> "PDFExtractor"],
      [exts |-> {<<".", "d", "o", "c", "x">>, <<".", "d", "o", "c">>}, extractor |-> "DocxExtractor"],
      [exts |-> {<<".", "x", "l", "s", "x">>, <<".", "x", "l", "s">>}, extractor |-> "ExcelExtractor"],
      [exts |-> {<<".", "m", "d">>, <<".", "t", "x", "t">>}, extractor |-> "MarkdownExtractor"],
      [exts |-> {<<".", "j", "s", "o", "n">>, <<".", "y", "a", "m", "l">>, <<".", "y", "m", "l">>, <<".", "t", "o", "m", "l">>, <<".", "e", "n", "v">>, <<".", "x", "m", "l">>,
                 <<".", "c", "s", "v">>, <<".", "c", "m", "a", "k", "e">>}, extractor |-> "GenericTextExtractor"],
      [exts |-> {<<".", "p", "n", "g">>, <<".", "j", "p", "g">>, <<".", "j", "p", "e", "g">>, <<".", "m", "p", "3">>, <<".", "m", "p", "4">>},
       extractor |-> "BinaryExtractor"]>>

\* the extensions of the text allow-list that no row lists
TextFallback ==
    {<<".", "i", "n", "i">>, <<".", "c", "f", "g">>, <<".", "s", "w", "i", "f", "t">>, <<".", "p", "h", "p">>, <<".", "c", "s", "s">>, <<".", "h", "t", "m", "l">>, <<".", "h">>, <<".", "h", "p", "p">>, <<".", "s", "h">>}

\* the extractor the table gives to a lowercase extension
Dispatched(ext) ==
    LET rows == {r \in 1..Len(DispatchRows) : ext \in DispatchRows[r].exts}
    IN  IF rows # {} THEN DispatchRows[CHOOSE r \in rows : \A q \in rows : r <= q].extractor
        ELSE IF ext \in TextFallback THEN "GenericTextExtractor"
        ELSE "BinaryExtractor"

\* the text allow-list of the fallback
TextAllowList ==
    TextFallback \cup {<<".", "t", "x", "t">>, <<".", "m", "d">>, <<".", "j", "s", "o", "n">>, <<".", "y", "a", "m", "l">>, <<".", "y", "m", "l">>, <<".", "p", "d", "f">>, <<".", "d", "o", "c">>,
                       <<".", "x", "m", "l">>, <<".", "c", "s", "v">>, <<".", "g", "o">>, <<".", "p", "y">>, <<".", "j", "s">>, <<".", "t", "s">>, <<".", "j", "a", "v", "a">>,
                       <<".", "r", "b">>, <<".", "r", "s">>, <<".", "c">>, <<".", "c", "p", "p">>, <<".", "c", "m", "a", "k", "e">>}

\* C19 as stated: DetectCategory gives every extension the one extractor of the
\* dispatch table, whatever the letter case of the extension: the extractor is
\* the one of the lowercase form.
C19_Original ==
    dispatch.called => dispatch.extractor = Dispatched(ToLower(dispatch.ext))

\* C19 amended: DetectCategory gives every lowercase extension the one extractor
\* of the dispatch table; an extension with an upper-case letter matches no row
\* and gets the generic text extractor if its lowercase form is on the text
\* allow-list, the binary extractor otherwise.
C19_DispatchLowercase ==
    dispatch.called =>
        dispatch.extractor =
            IF dispatch.ext = ToLower(dispatch.ext) THEN Dispatched(dispatch.ext)
            ELSE IF ToLower(dispatch.ext) \in TextAllowList THEN "GenericTextExtractor"
            ELSE "BinaryExtractor"

\* DetectCategory was called with .PDF
C19_Witness ==
    /\ dispatch.called
    /\ dispatch.ext = <<".", "P", "D", "F">>
    /\ dispatch.extractor = "GenericTextExtractor"

\* the rules of the categorizer, in order: the extensions and the file names of
\* each category
CategoryRules ==
    <<[category |-> "code",
       exts |-> {<<".", "g", "o">>, <<".", "d", "a", "r", "t">>, <<".", "j", "s">>, <<".", "t", "s">>, <<".", "p", "y">>, <<".", "j", "a", "v", "a">>, <<".", "r", "b">>, <<".", "r", "s">>,
                 <<".", "c">>, <<".", "c", "p", "p">>, <<".", "c", "s">>, <<".", "p", "h", "p">>, <<".", "s", "w", "i", "f", "t">>, <<".", "k", "t">>},
       names |-> {}],
      [category |-> "config",
       exts |-> {<<".", "j", "s", "o", "n">>, <<".", "y", "a", "m", "l">>, <<".", "y", "m", "l">>, <<".", "t", "o", "m", "l">>, <<".", "x", "m", "l">>, <<".", "i", "n", "i">>},
       names |-> {<<".", "e", "n", "v">>, <<".", "g", "i", "t", "i", "g", "n", "o", "r", "e">>}],
      [category |-> "pdf", exts |-> {<<".", "p", "d", "f">>}, names |-> {}],
      [category |-> "word", exts |-> {<<".", "d", "o", "c", "x">>, <<".", "d", "o", "c">>}, names |-> {}],
      [category |-> "spreadsheet", exts |-> {<<".", "x", "l", "s", "x">>, <<".", "x", "l", "s">>, <<".", "c", "s", "v">>}, names |-> {}],
      [category |-> "presentation", exts |-> {<<".", "p", "p", "t", "x">>, <<".", "p", "p", "t">>}, names |-> {}],
      [category |-> "text", exts |-> {<<".", "t", "x", "t">>, <<".", "m", "d">>}, names |-> {}],
      [category |-> "image",
       exts |-> {<<".", "j", "p", "g">>, <<".", "j", "p", "e", "g">>, <<".", "p", "n", "g">>, <<".", "g", "i", "f">>, <<".", "b", "m", "p">>, <<".", "s", "v", "g">>, <<".", "w", "e", "b", "p">>,
                 <<".", "h", "e", "i", "c">>},
       names |-> {}],
      [category |-> "video",
       exts |-> {<<".", "m", "p", "4">>, <<".", "a", "v", "i">>, <<".", "m", "o", "v">>, <<".", "m", "k", "v">>, <<".", "w", "e", "b", "m">>, <<".", "f", "l", "v">>, <<".", "w", "m", "v">>},
       names |-> {}],
      [category |-> "audio",
       exts |-> {<<".", "m", "p", "3">>, <<".", "w", "a", "v">>, <<".", "f", "l", "a", "c">>, <<".", "a", "a", "c">>, <<".", "o", "g", "g">>, <<".", "m", "4", "a">>, <<".", "w", "m", "a">>},
       names |-> {}],
      [category |-> "archive",
       exts |-> {<<".", "z", "i", "p">>, <<".", "r", "a", "r">>, <<".", "7", "z">>, <<".", "t", "a", "r">>, <<".", "g", "z">>}, names |-> {}]>>

\* the category of the first rule that an extension and a file name match
FirstRuleOf(ext, name) ==
    LET rules == {r \in 1..Len(CategoryRules) :
                     ToLower(ext) \in CategoryRules[r].exts
                     \/ ToLower(name) \in CategoryRules[r].names}
    IN  IF rules = {} THEN "other"
        ELSE CategoryRules[CHOOSE r \in rules : \A q \in rules : r <= q].category

\* the same, tabulated for the files of the families
FirstRuleOfFamilies ==
    LET keys == UNION {{<<FamilySummaries[p][i, TRUE].Extension, FamilySummaries[p][i, TRUE].Name>> :
                           i \in 1..Len(Families[p].items)} : p \in 1..Len(Families)}
    IN  [k \in keys |-> FirstRuleOf(k[1], k[2])]

\* the category of the first rule that the file at position i matches
FirstRule(i) ==
    LET k == <<summary.Files[i].Extension, summary.Files[i].Name>>
    IN  IF k \in DOMAIN FirstRuleOfFamilies THEN FirstRuleOfFamilies[k]
        ELSE FirstRuleOf(k[1], k[2])

CategoryLabels == {CategoryRules[r].category : r \in 1..Len(CategoryRules)} \cup {"other"}

\* C20: categorizeFiles counts each file under the category of the first rule
\* it matches, in the order code, config, pdf, word, spreadsheet, presentation,
\* text, image, video, audio, archive, other, and under no other category.
C20_FirstMatchingRule ==
    Analyzed =>
        /\ DOMAIN insight.FilesByCategory \subseteq CategoryLabels
        /\ \A c \in CategoryLabels :
              Count(c) = Cardinality({i \in FileIndexes : FirstRule(i) = c})

\* a .env file and a .csv file, categorized as config and spreadsheet
C20_Witness ==
    /\ Analyzed
    /\ \E i \in FileIndexes : summary.Files[i].Name = <<".", "e", "n", "v">>
    /\ \E i \in FileIndexes : summary.Files[i].Extension = <<".", "c", "s", "v">>
    /\ Count("config") = 1 /\ Count("spreadsheet") = 1

-----------------------------------------------------------------------------
(* Properties of the prompt                                                *)

\* GeneratePrompt has built the context data
Prompted == payload.built

\* the entry that describes the file at position i of the summary
EntryOf(i) ==
    [name |-> summary.Files[i].Name, extension |-> summary.Files[i].Extension,
     size_formatted |-> formatBytes(summary.Files[i].Size),
     metadata |-> summary.Files[i].Metadata]

\* C21: for each key file of the insight the context data holds an entry with
\* the name, extension, formatted size and metadata of that very file, also
\* when several scanned files have the same base name: key files of one name
\* are described by entries of as many different files of that name.
C21_KeyFileEntries ==
    (Prompted /\ KeyFilesAreFiles) =>
        LET data == payload.key_files_data
        IN  /\ Len(data) = Len(insight.KeyFiles)
            /\ \A k \in 1..Len(data) :
                  /\ data[k].name = insight.KeyFiles[k]
                  /\ Cardinality({j \in 1..Len(data) : data[j] = data[k]})
                        <= Cardinality({i \in FileIndexes : EntryOf(i) = data[k]})

\* a path below a node_modules directory or below a dot-prefixed directory
NoisePath(path) ==
    \E k \in 1..(Len(path) - 1) : path[k] = <<"n", "o", "d", "e", "_", "m", "o", "d", "u", "l", "e", "s">> \/ HasPrefix(path[k], <<".">>)

\* C23: no file below a node_modules directory, a .git directory or another
\* dot-prefixed directory is in the scan result or counted in the file count.
C23_NoiseDirectoriesIgnored ==
    /\ \A i \in 1..Len(scan.Files) : ~NoisePath(scan.Files[i].Path)
    /\ Scanned /\ runResult # "error" =>
          summary.FileCount =
              Cardinality({i \in 1..Len(scan.Files) : ~NoisePath(scan.Files[i].Path)})

-----------------------------------------------------------------------------
(* Properties of the insights of a domain                                  *)

PhotoTopics == {<<"p", "h", "o", "t", "o", "s">>, <<"i", "m", "a", "g", "e", "s">>}
VideoTopics == {<<"v", "i", "d", "e", "o", "s">>}
AudioTopics == {<<"m", "u", "s", "i", "c">>, <<"a", "u", "d", "i", "o">>}

PriorityIndexes ==
    {i \in FileIndexes : /\ summary.Files[i].Extension \in {<<".", "p", "d", "f">>, <<".", "d", "o", "c", "x">>}
                         /\ ShouldPrioritizeDoc(summary.Files[i].Name, currentYear)}

NthPriority(k) == CHOOSE i \in PriorityIndexes : Cardinality({j \in PriorityIndexes : j < i}) = k - 1

DocumentDomain == Analyzed /\ insight.Domain \in {DomainDocuments, DomainStudyMaterials}

\* C26: in the documents and study domains there are at most 5 key files; they
\* are the first 5 (or all) files of the keyword pass in list order, and the
\* scored ranking with limit 3 only when the keyword pass selected no file.
C26_DocumentKeyFiles ==
    DocumentDomain =>
        /\ Len(insight.KeyFiles) <= 5
        /\ IF PriorityIndexes = {}
           THEN insight.KeyFiles = findImportantDocs(summary.Files, 3, currentYear)
           ELSE /\ Len(insight.KeyFiles) = Min(5, Cardinality(PriorityIndexes))
                /\ \A k \in 1..Len(insight.KeyFiles) :
                      insight.KeyFiles[k] = summary.Files[NthPriority(k)].Name

C26_Witness ==
    /\ DocumentDomain
    /\ Cardinality(PriorityIndexes) > 5
    /\ Cardinality({insight.KeyFiles[k] : k \in 1..Len(insight.KeyFiles)}) > 1
    /\ \E i \in FileIndexes : i \notin PriorityIndexes /\ i < NthPriority(5)

LargeIndexes == {i \in FileIndexes : summary.Files[i].Size > 500000}

NthLarge(k) == CHOOSE i \in LargeIndexes : Cardinality({j \in LargeIndexes : j < i}) = k - 1

\* findImportantDocs was called with a positive limit on a list without any
\* .pdf/.docx/.doc file that holds a file above 500,000 bytes
LargeFallback ==
    /\ important.called
    /\ important.limit > 0
    /\ \A i \in FileIndexes : ToLower(summary.Files[i].Extension) \notin {<<".", "p", "d", "f">>, <<".", "d", "o", "c", "x">>, <<".", "d", "o", "c">>}
    /\ LargeIndexes # {}

\* C27: with a positive limit, no document and at least one file above 500,000
\* bytes, findImportantDocs returns a non-empty list: the first files above
\* 500,000 bytes in the order of the list, whatever their sizes.
C27_LargeFileFallback ==
    LargeFallback =>
        /\ Len(important.names) = Min(important.limit, Cardinality(LargeIndexes))
        /\ Len(important.names) > 0
        /\ \A k \in 1..Len(important.names) :
              important.names[k] = summary.Files[NthLarge(k)].Name

C27_Witness ==
    /\ LargeFallback
    /\ Cardinality(LargeIndexes) = LongList
    /\ Len(important.names) > 1
    /\ \E i \in LargeIndexes : i > 1 /\ summary.Files[i].Size > summary.Files[1].Size

-----------------------------------------------------------------------------
(* Properties of the shell                                                 *)

ScEntered == last.handler = "sc"

\* the lines of kind k among the lines of a sequence
LinesOf(lines, k) == {i \in 1..Len(lines) : lines[i].kind = k}

\* the lines the last command added to a report file
Added(path) ==
    IF path \notin DOMAIN reports THEN <<>>
    ELSE IF path \in DOMAIN last.reportsBefore
            /\ Len(reports[path]) >= Len(last.reportsBefore[path])
            /\ SubSeq(reports[path], 1, Len(last.reportsBefore[path])) = last.reportsBefore[path]
    THEN SubSeq(reports[path], Len(last.reportsBefore[path]) + 1, Len(reports[path]))
    ELSE reports[path]

\* C22: a failure of the generation backend makes the sc invocation return an
\* error, no AI text is printed or written to the report, and the backend is
\* called once.
C22_BackendFailureIsError ==
    (ScEntered /\ last.backend \notin {None, "ok"}) =>
        /\ last.err # None
        /\ last.text = None
        /\ LinesOf(last.screen, "ai") = {}
        /\ \A path \in DOMAIN reports : LinesOf(Added(path), "ai") = {}
        /\ last.calls = 1

\* cd <dir> was the last line entered, for a directory that exists
CdEntered ==
    /\ last.handler # None
    /\ Len(last.args) = 2
    /\ last.args[1] = <<"c", "d">>
    /\ Abs(last.before, last.args[2]) \in ShellDirs

\* C24: once cd <dir> was entered, the working directory of the shell is <dir>.
C24_CdChangesDirectory ==
    CdEntered => cwd = Abs(last.before, last.args[2])

Redirected == ScEntered /\ \E i \in 1..Len(last.args) : last.args[i] \in Redirections

RedirectIndex == CHOOSE i \in 1..Len(last.args) :
                    /\ last.args[i] \in Redirections
                    /\ \A j \in 1..(i - 1) : last.args[j] \notin Redirections

\* the directory the words before the redirect operator name
NamedDir ==
    Abs(last.before, IF RedirectIndex > 2 THEN Trim(last.args[2], {"\"", "'"}) ELSE <<".">>)

\* C30: a redirected sc invocation that fails leaves every report file as it
\* was, and a redirected invocation scans the directory named before the
\* operator, never the operator or the file name.
C30_FailedRedirectKeepsTarget ==
    Redirected =>
        /\ last.err # None => reports = last.reportsBefore
        /\ last.scanned \subseteq {NamedDir}

-----------------------------------------------------------------------------
(* Properties of the results of Run                                        *)

PdfIndexes == {i \in FileIndexes : summary.Files[i].Extension = <<".", "p", "d", "f">>}

RunReturned == runResult = "summary" /\ pc \in {"done", "prompted"}

\* C29: in every result of Run the file count of the summary, the number of
\* file summaries and the sum of the category histogram are equal, the prompt
\* reports that count as total_files, and the scanner's list holds files only.
C29_FileCountsAgree ==
    RunReturned =>
        /\ summary.FileCount = Len(summary.Files)
        /\ summary.FileCount = Total
        /\ Prompted => payload.total_files = Len(summary.Files)
        /\ \A i \in 1..Len(scan.Files) : scan.Files[i].Type = "File"

C29_Witness ==
    /\ RunReturned
    /\ Prompted
    /\ payload.total_files > 2
    /\ scan.Subdirectories # <<>>
    /\ unreadable # {}
====
